---- MODULE Spec2Model ----
(***************************************************************************)
(* Review Forge: the product-link resolver, the two Apify fetch tools, the *)
(* composeReviewFlow orchestrator and the page handlers that call it.      *)
(*                                                                         *)
(* Strings are TLA+ strings (TLC evaluates Len, SubSeq and \o on them).    *)
(* An optional JavaScript value (T | undefined | null) is a sequence of    *)
(* length at most one: None is undefined/null, Some(v) is the value v.     *)
(* A value computed once and read several times is passed on as an         *)
(* operator parameter (the operators named ...With, ...From, ...Of).       *)
(***************************************************************************)
EXTENDS Naturals, Sequences, FiniteSets, TLC

None == <<>>
Some(v) == <<v>>
IsSome(o) == Len(o) > 0
Val(o) == o[1]

Min(S) == CHOOSE x \in S : \A y \in S : x <= y
Max(S) == CHOOSE x \in S : \A y \in S : x >= y
MinOr(S, default) == IF S = {} THEN default ELSE Min(S)
MaxOr(S, default) == IF S = {} THEN default ELSE Max(S)

(***************************************************************************)
(* String primitives of the JavaScript runtime, computed on characters.    *)
(***************************************************************************)
Char(s, i) == SubSeq(s, i, i)

\* String.prototype.toUpperCase on one character
UpperChar(c) ==
  CASE c = "a" -> "A" [] c = "b" -> "B" [] c = "c" -> "C" [] c = "d" -> "D"
    [] c = "e" -> "E" [] c = "f" -> "F" [] c = "g" -> "G" [] c = "h" -> "H"
    [] c = "i" -> "I" [] c = "j" -> "J" [] c = "k" -> "K" [] c = "l" -> "L"
    [] c = "m" -> "M" [] c = "n" -> "N" [] c = "o" -> "O" [] c = "p" -> "P"
    [] c = "q" -> "Q" [] c = "r" -> "R" [] c = "s" -> "S" [] c = "t" -> "T"
    [] c = "u" -> "U" [] c = "v" -> "V" [] c = "w" -> "W" [] c = "x" -> "X"
    [] c = "y" -> "Y" [] c = "z" -> "Z" [] OTHER -> c

\* String.prototype.toLowerCase on one character
LowerChar(c) ==
  CASE c = "A" -> "a" [] c = "B" -> "b" [] c = "C" -> "c" [] c = "D" -> "d"
    [] c = "E" -> "e" [] c = "F" -> "f" [] c = "G" -> "g" [] c = "H" -> "h"
    [] c = "I" -> "i" [] c = "J" -> "j" [] c = "K" -> "k" [] c = "L" -> "l"
    [] c = "M" -> "m" [] c = "N" -> "n" [] c = "O" -> "o" [] c = "P" -> "p"
    [] c = "Q" -> "q" [] c = "R" -> "r" [] c = "S" -> "s" [] c = "T" -> "t"
    [] c = "U" -> "u" [] c = "V" -> "v" [] c = "W" -> "w" [] c = "X" -> "x"
    [] c = "Y" -> "y" [] c = "Z" -> "z" [] OTHER -> c

RECURSIVE ToUpperCase(_)
ToUpperCase(s) ==
  IF Len(s) = 0 THEN "" ELSE UpperChar(Head(s)) \o ToUpperCase(Tail(s))

RECURSIVE ToLowerCase(_)
ToLowerCase(s) ==
  IF Len(s) = 0 THEN "" ELSE LowerChar(Head(s)) \o ToLowerCase(Tail(s))

\* the character class [A-Z0-9] without the flag i
IsAlnumUpper(c) ==
  c \in {"A", "B", "C", "D", "E", "F", "G", "H", "I", "J", "K", "L", "M",
         "N", "O", "P", "Q", "R", "S", "T", "U", "V", "W", "X", "Y", "Z",
         "0", "1", "2", "3", "4", "5", "6", "7", "8", "9"}

\* the character class [A-Z0-9] under the regex flag i
IsAlnumI(c) == IsAlnumUpper(UpperChar(c))

\* two strings equal up to letter case
EqualsI(a, b) == ToUpperCase(a) = ToUpperCase(b)

\* does the literal p occur in s at position i (compared ignoring case)
MatchesAtI(s, i, p) ==
  /\ i >= 1
  /\ i + Len(p) - 1 <= Len(s)
  /\ EqualsI(SubSeq(s, i, i + Len(p) - 1), p)

\* does the literal p occur in s at position i (case-sensitive)
MatchesAt(s, i, p) ==
  /\ i >= 1
  /\ i + Len(p) - 1 <= Len(s)
  /\ SubSeq(s, i, i + Len(p) - 1) = p

\* String.prototype.indexOf, 1-based; 0 when p does not occur at or after from
IndexOfFrom(s, p, from) == MinOr({i \in from..Len(s) : MatchesAt(s, i, p)}, 0)

\* String.prototype.lastIndexOf, 1-based; 0 when p does not occur
LastIndexOf(s, p) == MaxOr({i \in 1..Len(s) : MatchesAt(s, i, p)}, 0)

\* String.prototype.includes
Includes(s, p) == Len(p) = 0 \/ IndexOfFrom(s, p, 1) # 0

\* String.prototype.endsWith
EndsWith(s, p) == Len(p) <= Len(s) /\ SubSeq(s, Len(s) - Len(p) + 1, Len(s)) = p

IsSpace(c) == c \in {" ", "\t", "\n", "\r"}

RECURSIVE TrimStart(_)
TrimStart(s) ==
  IF Len(s) > 0 /\ IsSpace(Head(s)) THEN TrimStart(Tail(s)) ELSE s

RECURSIVE TrimEnd(_)
TrimEnd(s) ==
  IF Len(s) > 0 /\ IsSpace(Char(s, Len(s)))
    THEN TrimEnd(SubSeq(s, 1, Len(s) - 1)) ELSE s

\* String.prototype.trim
Trim(s) == TrimEnd(TrimStart(s))

\* String.prototype.substring(0, n)
Substring0(s, n) == IF Len(s) <= n THEN s ELSE SubSeq(s, 1, n)

\* String.prototype.substring(from - 1): the rest of s from position from
RestFrom(s, from) == IF from > Len(s) THEN "" ELSE SubSeq(s, from, Len(s))

\* the first position at or after from holding one of the characters of stops,
\* or Len(s) + 1
FirstOf(s, stops, from) ==
  MinOr({i \in from..Len(s) : Char(s, i) \in stops}, Len(s) + 1)

(***************************************************************************)
(* new URL(s) for the http and https schemes: scheme, "//", a non-empty    *)
(* host up to the first "/", "?" or "#", the path up to "?" or "#", the    *)
(* query up to "#".  The hostname is lower-cased, an empty path is "/".    *)
(* Any other string makes the constructor throw (ok = FALSE).              *)
(***************************************************************************)
SchemeLen(s) ==
  IF MatchesAtI(s, 1, "https://") THEN Len("https://")
  ELSE IF MatchesAtI(s, 1, "http://") THEN Len("http://")
  ELSE 0

NotAURLValue == [ok |-> FALSE, hostname |-> "", pathname |-> "", search |-> ""]

URLWithPath(s, se, hostEnd, pathEnd) ==
  [ok |-> TRUE,
   hostname |-> ToLowerCase(SubSeq(s, se + 1, hostEnd - 1)),
   pathname |-> IF pathEnd = hostEnd THEN "/" ELSE SubSeq(s, hostEnd, pathEnd - 1),
   search   |-> SubSeq(s, pathEnd, FirstOf(s, {"#"}, pathEnd) - 1)]

URLWithHost(s, se, hostEnd) ==
  IF hostEnd = se + 1 THEN NotAURLValue
  ELSE URLWithPath(s, se, hostEnd, FirstOf(s, {"?", "#"}, hostEnd))

URLWithScheme(s, se) ==
  IF se = 0 THEN NotAURLValue
  ELSE URLWithHost(s, se, FirstOf(s, {"/", "?", "#"}, se + 1))

URLOfTrimmed(s) == URLWithScheme(s, SchemeLen(s))

URLParse(raw) == URLOfTrimmed(Trim(raw))

\* URLSearchParams.get on the text q of the query (without its "?"): the value
\* of the first name=value pair, split on "&", whose name is exactly name
RECURSIVE ParamGet(_, _)

ParamOfPair(piece, eq, rest, name) ==
  IF Len(piece) > 0 /\ SubSeq(piece, 1, eq - 1) = name
    THEN Some(RestFrom(piece, eq + 1))
    ELSE ParamGet(rest, name)

ParamOfPiece(piece, rest, name) ==
  ParamOfPair(piece, FirstOf(piece, {"="}, 1), rest, name)

ParamSplit(q, amp, name) ==
  ParamOfPiece(SubSeq(q, 1, amp - 1), RestFrom(q, amp + 1), name)

ParamGet(q, name) ==
  IF Len(q) = 0 THEN None ELSE ParamSplit(q, FirstOf(q, {"&"}, 1), name)

SearchParamsGet(search, name) ==
  IF Len(search) <= 1 THEN None ELSE ParamGet(Tail(search), name)

(***************************************************************************)
(* The regular expressions of extractAsinAndDomain.  Each is a list of     *)
(* literal alternatives followed by the capture group ([A-Z0-9]{10}), with *)
(* the flag i; String.prototype.match returns the leftmost match and, at   *)
(* one position, the first alternative that matches.                       *)
(***************************************************************************)
AsinLen == 10

AllAlnumI(s, i, n) ==
  /\ i + n - 1 <= Len(s)
  /\ \A j \in i..(i + n - 1) : IsAlnumI(Char(s, j))

\* does prefix followed by the capture group match at i
PrefixMatchesAt(s, i, prefix) ==
  MatchesAtI(s, i, prefix) /\ AllAlnumI(s, i + Len(prefix), AsinLen)

\* position of the capture group for the first alternative among ks, else 0
CaptureOfFirst(i, prefixes, ks) ==
  IF ks = {} THEN 0 ELSE i + Len(prefixes[Min(ks)])

\* position of the capture group of a match starting at i, else 0
AltCapture(s, i, prefixes) ==
  CaptureOfFirst(i, prefixes,
                 {k \in 1..Len(prefixes) : PrefixMatchesAt(s, i, prefixes[k])})

\* the capture group of the leftmost of the matches <<start, capture position>>
LeftmostCapture(s, matches) ==
  IF matches = {} THEN None
  ELSE Some(SubSeq(s,
                   (CHOOSE m \in matches : \A o \in matches : m[1] <= o[1])[2],
                   (CHOOSE m \in matches : \A o \in matches : m[1] <= o[1])[2]
                     + AsinLen - 1))

\* s.match(/(?:p1|p2|...)([A-Z0-9]{10})/i): the capture group, or None
RegexCapture(s, prefixes) ==
  LeftmostCapture(s, {m \in {<<i, AltCapture(s, i, prefixes)>> : i \in 1..Len(s)} :
                        m[2] # 0})

\* /^[A-Z0-9]{10}$/i.test(s)
ValidAsinI(s) == Len(s) = AsinLen /\ \A j \in 1..Len(s) : IsAlnumI(Char(s, j))

\* /^[A-Z0-9]{10}$/.test(s)
ValidAsin(s) == Len(s) = AsinLen /\ \A j \in 1..Len(s) : IsAlnumUpper(Char(s, j))

\* a faulty variant of pathPatterns: the alternative gp/product is missing
pathPatternsWithoutGpProduct == << <<"/dp/", "/-/", "/d/">>, <<"/gp/aw/d/">> >>

\* [ /\/(?:dp|gp\/product|-|d)\/([A-Z0-9]{10})/i, /\/gp\/aw\/d\/([A-Z0-9]{10})/i ]
pathPatterns == << <<"/dp/", "/gp/product/", "/-/", "/d/">>, <<"/gp/aw/d/">> >>

\* /(?:asin=|dp\/|d\/)([A-Z0-9]{10})/i
rawPattern == <<"asin=", "dp/", "d/">>

\* potentialAsin = match[1].toUpperCase(), accepted when it validates
UpperIfValid(potentialAsin) ==
  IF ValidAsin(potentialAsin) THEN Some(potentialAsin) ELSE None

PotentialAsin(match) ==
  IF IsSome(match) /\ Len(Val(match)) > 0
    THEN UpperIfValid(ToUpperCase(Val(match))) ELSE None

\* the loop over pathPatterns: the first pattern whose capture validates
RECURSIVE AsinFromPath(_, _)

AsinFromPathOr(found, pathname, k) ==
  IF IsSome(found) THEN found ELSE AsinFromPath(pathname, k + 1)

AsinFromPath(pathname, k) ==
  IF k > Len(pathPatterns) THEN None
  ELSE AsinFromPathOr(PotentialAsin(RegexCapture(pathname, pathPatterns[k])),
                      pathname, k)

\* url.searchParams.get('asin') validated with the flag i and upper-cased
\* A resolver taking the query parameter without testing its format.
AsinOfParamUnvalidated(asinFromQuery) ==
  IF IsSome(asinFromQuery) /\ Len(Val(asinFromQuery)) > 0
    THEN Some(ToUpperCase(Val(asinFromQuery)))
    ELSE None

AsinOfParam(asinFromQuery) ==
  IF IsSome(asinFromQuery) /\ Len(Val(asinFromQuery)) > 0
       /\ ValidAsinI(Val(asinFromQuery))
    THEN Some(ToUpperCase(Val(asinFromQuery)))
    ELSE None

AsinFromQuery(search) == AsinOfParam(SearchParamsGet(search, "asin"))

\* the last-resort scan of the raw string
AsinFromRaw(trimmedProductURL) ==
  PotentialAsin(RegexCapture(trimmedProductURL, rawPattern))

\* trimmed.match(/^(?:https?:\/\/)?(?:www\.)?([^\/]+)/i): both optional
\* groups are greedy, so the longest skipped prefix that leaves a character
\* other than "/" is taken
SkipWww(s, n) == IF MatchesAtI(s, n + 1, "www.") THEN n + Len("www.") ELSE n

HostnameAfter(s, tries, good) ==
  IF good = {} THEN None
  ELSE Some(SubSeq(s, tries[Min(good)] + 1,
                   FirstOf(s, {"/"}, tries[Min(good)] + 1) - 1))

HostnameOfTries(s, tries) ==
  HostnameAfter(s, tries,
                {k \in 1..Len(tries) :
                   tries[k] < Len(s) /\ Char(s, tries[k] + 1) # "/"})

HostnameWithScheme(s, sch) ==
  HostnameOfTries(s, <<SkipWww(s, sch), sch, SkipWww(s, 0), 0>>)

HostnameByRegex(s) == HostnameWithScheme(s, SchemeLen(s))

knownTLDs == <<"com", "co.uk", "de", "fr", "es", "it", "co.jp", "cn", "in",
               "com.br", "com.mx", "com.au", "ca">>

MaxDomainCodeLen == 10

\* parts[parts.length - 1].split('/')[0] of hostname.split('amazon.')
PotentialDomainCode(tail) == SubSeq(tail, 1, FirstOf(tail, {"/"}, 1) - 1)

AfterLastAmazon(hostname, last) ==
  IF last = 0 THEN "" ELSE RestFrom(hostname, last + Len("amazon."))

SplitCode(potentialDomainCode) ==
  IF Len(potentialDomainCode) > 0 /\ Len(potentialDomainCode) <= MaxDomainCodeLen
    THEN Some(potentialDomainCode) ELSE None

\* "uk" and "jp" become "co.uk" and "co.jp"
NormalizedCode(domainCode) ==
  IF domainCode = Some("uk") THEN Some("co.uk")
  ELSE IF domainCode = Some("jp") THEN Some("co.jp")
  ELSE domainCode

\* a faulty variant of DomainCodeWith: a hostname without a marketplace is
\* taken for amazon.com
DomainCodeGuessed(hostname, hits) ==
  IF hits # {} THEN Some(knownTLDs[Min(hits)])
  ELSE IF Includes(hostname, "amazon.")
    THEN SplitCode(PotentialDomainCode(
           AfterLastAmazon(hostname, LastIndexOf(hostname, "amazon."))))
  ELSE Some("com")

DomainCodeWith(hostname, hits) ==
  IF hits # {} THEN Some(knownTLDs[Min(hits)])
  ELSE IF Includes(hostname, "amazon.")
    THEN SplitCode(PotentialDomainCode(
           AfterLastAmazon(hostname, LastIndexOf(hostname, "amazon."))))
  ELSE None

\* Step 3 of extractAsinAndDomain: the marketplace code of a hostname
DomainCodeOf(hostname) ==
  NormalizedCode(
    DomainCodeWith(hostname,
                   {k \in 1..Len(knownTLDs) :
                      EndsWith(hostname, "amazon." \o knownTLDs[k])}))

DomainCodeOfOptional(hostname) ==
  IF IsSome(hostname) /\ Len(Val(hostname)) > 0
    THEN DomainCodeOf(Val(hostname)) ELSE None

\* a faulty variant of AsinOr: the path patterns first, else the query
\* parameter
AsinOrPathFirst(byQuery, pathname) ==
  IF IsSome(AsinFromPath(pathname, 1)) THEN AsinFromPath(pathname, 1) ELSE byQuery

\* Step 1 on a parsed URL: the query parameter, else the path patterns
AsinOr(byQuery, pathname) ==
  IF IsSome(byQuery) THEN byQuery ELSE AsinFromPath(pathname, 1)

AsinOfURL(url) == AsinOr(AsinFromQuery(url.search), url.pathname)

\* Step 2: the raw-string scan when Step 1 found nothing
AsinOrRaw(asin, trimmedProductURL) ==
  IF IsSome(asin) THEN asin ELSE AsinFromRaw(trimmedProductURL)

ExtractWithURL(trimmedProductURL, url) ==
  IF url.ok
    THEN [asin |-> AsinOrRaw(AsinOfURL(url), trimmedProductURL),
          domainCode |-> DomainCodeOfOptional(Some(url.hostname))]
    ELSE [asin |-> AsinFromRaw(trimmedProductURL),
          domainCode |-> DomainCodeOfOptional(HostnameByRegex(trimmedProductURL))]

ExtractOfTrimmed(trimmedProductURL) ==
  ExtractWithURL(trimmedProductURL, URLOfTrimmed(trimmedProductURL))

\* extractAsinAndDomain of the product-info tool and of the review tool of the
\* same revision (the two functions are the same text)
extractAsinAndDomain(productURL) == ExtractOfTrimmed(Trim(productURL))

(***************************************************************************)
(* JSON values of a provider payload, as far as the tools inspect them:    *)
(* a field is undefined, a string or a number.                             *)
(***************************************************************************)
Undef == [t |-> "undef", s |-> "", n |-> 0]
Str(x) == [t |-> "str", s |-> x, n |-> 0]
Num(k) == [t |-> "num", s |-> "", n |-> k]

\* JavaScript truthiness
Truthy(v) == (v.t = "str" /\ Len(v.s) > 0) \/ (v.t = "num" /\ v.n # 0)

\* typeof v === 'string'
IsString(v) == v.t = "str"

DigitChar(d) == SubSeq("0123456789", d + 1, d + 1)

RECURSIVE NumToString(_)
NumToString(k) ==
  IF k < 10 THEN DigitChar(k)
  ELSE NumToString(k \div 10) \o DigitChar(k % 10)

\* the string a value becomes under the operator +
ToStringJs(v) ==
  IF v.t = "str" THEN v.s ELSE IF v.t = "num" THEN NumToString(v.n) ELSE "undefined"

\* Array.prototype.join on an array of strings
RECURSIVE Join(_, _)
Join(parts, sep) ==
  IF Len(parts) = 0 THEN ""
  ELSE IF Len(parts) = 1 THEN parts[1]
  ELSE parts[1] \o sep \o Join(Tail(parts), sep)

(***************************************************************************)
(* fetchAmazonProductInfoTool                                              *)
(***************************************************************************)
DEFAULT_PRODUCT_NAME == "Product (Details Fetching Failed)"
DEFAULT_DESCRIPTION ==
  "Could not fetch detailed product description. Please refer to the Amazon page."

MaxNameLen == 200
MaxDescriptionLen == 1500
ShortDescriptionLen == 20

\* the value every failure path of the tool returns
DefaultInfo ==
  [productName |-> DEFAULT_PRODUCT_NAME,
   productDescription |-> DEFAULT_DESCRIPTION,
   productImageURL |-> None]

\* the promise of a tool call: not made, pending, fulfilled or rejected
Idle == [st |-> "idle"]
Pending == [st |-> "pending"]
Fulfilled(v) == [st |-> "fulfilled", val |-> v]
Rejected(m) == [st |-> "rejected", err |-> m]

\* z.string().url(): the string is accepted when new URL(s) does not throw
IsURL(s) == URLParse(s).ok

\* the message of the error the tool runtime throws for an output that does
\* not match FetchAmazonProductInfoOutputSchema
InfoSchemaErrorMessage ==
  "Schema validation failed. Parse Errors: - productImageURL: must match format \"uri\""

\* outputSchema of the tool: productName and productDescription are strings,
\* productImageURL, when present, is a URL
InfoOutputSchemaOk(out) ==
  ~IsSome(out.productImageURL) \/ IsURL(Val(out.productImageURL))

\* productData.title || DEFAULT_PRODUCT_NAME
NameOrDefault(title) == IF Truthy(title) THEN title ELSE Str(DEFAULT_PRODUCT_NAME)

\* (typeof productName === 'string' ? productName.trim() : DEFAULT).substring(0, 200)
TrimmedName(productName) ==
  Substring0(IF IsString(productName) THEN Trim(productName.s)
             ELSE DEFAULT_PRODUCT_NAME, MaxNameLen)

FinalProductName(productData) == TrimmedName(NameOrDefault(productData.title))

\* productData.productDescription || ""
DescriptionOrEmpty(description) == IF Truthy(description) THEN description ELSE Str("")

\* the three branches that merge features.join('. ') into the description
MergeFeatures(d, featuresText) ==
  IF Truthy(d) /\ IsString(d) /\ Len(d.s) < ShortDescriptionLen
       /\ Len(featuresText) > Len(d.s)
    THEN Str(featuresText)
  ELSE IF Truthy(d) THEN Str(ToStringJs(d) \o ". " \o featuresText)
  ELSE Str(featuresText)

DescriptionWithFeatures(d, features) ==
  IF IsSome(features) /\ Len(Val(features)) > 0
    THEN MergeFeatures(d, Join(Val(features), ". ")) ELSE d

\* aboutProduct.map(item => item.value || "").join(". ")
AboutValues(aboutProduct) ==
  [i \in 1..Len(aboutProduct) |->
     IF Truthy(aboutProduct[i]) THEN ToStringJs(aboutProduct[i]) ELSE ""]

DescriptionWithAbout(d, aboutProduct) ==
  IF ~Truthy(d) /\ IsSome(aboutProduct)
    THEN Str(Join(AboutValues(Val(aboutProduct)), ". ")) ELSE d

\* the description before the final trim and cut; a number stays a number
RawDescription(productData) ==
  DescriptionWithAbout(
    DescriptionWithFeatures(DescriptionOrEmpty(productData.productDescription),
                            productData.features),
    productData.aboutProduct)

\* the default for a blank description, then trim() and substring(0, 1500)
FinalProductDescription(d) ==
  Substring0(Trim(IF ~Truthy(d) \/ Trim(d.s) = "" THEN DEFAULT_DESCRIPTION ELSE d.s),
             MaxDescriptionLen)

\* imageUrl, else mainImage.link, else images[0].link, each only when a
\* non-empty string
ProductImageURL(productData) ==
  IF Truthy(productData.imageUrl) /\ IsString(productData.imageUrl)
    THEN Some(productData.imageUrl.s)
  ELSE IF Truthy(productData.mainImageLink) /\ IsString(productData.mainImageLink)
    THEN Some(productData.mainImageLink.s)
  ELSE IF Truthy(productData.imagesLink) /\ IsString(productData.imagesLink)
    THEN Some(productData.imagesLink.s)
  ELSE None

\* A provider response is [kind |-> "throw"] (fetch or response.json()
\* rejects), [kind |-> "status"] (response.ok is false), or
\* [kind |-> "json", body |-> b] with b.shape one of "notArray", "array";
\* an array body has items, each [obj |-> BOOLEAN, data |-> record].
IsProviderFailure(response) ==
  \/ response.kind \in {"throw", "status"}
  \/ response.kind = "json" /\ response.body.shape # "array"
  \/ response.kind = "json" /\ response.body.shape = "array"
       /\ (Len(response.body.items) = 0 \/ ~response.body.items[1].obj)

\* productDescription.trim() on a truthy value that is no string throws a
\* TypeError inside the try block, and the catch returns the default value
InfoWithDescription(productData, d) ==
  IF Truthy(d) /\ ~IsString(d) THEN DefaultInfo
  ELSE [productName |-> FinalProductName(productData),
        productDescription |-> FinalProductDescription(d),
        productImageURL |-> ProductImageURL(productData)]

InfoOfProductData(productData) ==
  InfoWithDescription(productData, RawDescription(productData))

\* the value the tool function returns once the provider has answered
\* (everything after the await of fetch, inside try/catch)
InfoToolReturn(response) ==
  IF IsProviderFailure(response) THEN DefaultInfo
  ELSE InfoOfProductData(response.body.items[1].data)

\* the returned value is checked against the tool's outputSchema
InfoChecked(out) ==
  IF InfoOutputSchemaOk(out) THEN Fulfilled(out)
  ELSE Rejected(InfoSchemaErrorMessage)

\* the promise of the tool call after the provider has answered
InfoToolSettle(response) == InfoChecked(InfoToolReturn(response))

\* the actor input of a resolved reference
ActorInput(ref) == [asin |-> Val(ref.asin), domainCode |-> Val(ref.domainCode)]

\* without a reference the tool returns the default value, otherwise it
\* posts one request and awaits the answer
InfoToolRequest(ref) ==
  IF ~IsSome(ref.asin) \/ ~IsSome(ref.domainCode)
    THEN [promise |-> Fulfilled(DefaultInfo), request |-> None]
    ELSE [promise |-> Pending, request |-> Some(ActorInput(ref))]

\* the tool call up to its first await.
\* [promise, request]: request is None or Some([asin, domainCode])
InfoToolStart(productURL, token) ==
  IF ~token THEN [promise |-> Fulfilled(DefaultInfo), request |-> None]
  ELSE InfoToolRequest(extractAsinAndDomain(productURL))

(***************************************************************************)
(* fetchAmazonReviewsApifyTool                                             *)
(***************************************************************************)
EmptyCorpus == [reviews |-> <<>>, productTitle |-> None]

\* one iteration of the loop over datasetItems: the trimmed text of a record
\* with a non-blank string text, and the first non-blank string productTitle
\* A loop that reads the product title only from the records whose text it
\* keeps.
WithItemTitleOfKeptReview(acc, item) ==
  IF item.obj /\ IsString(item.data.text) /\ Trim(item.data.text.s) # ""
    THEN [reviews |-> Append(acc.reviews, Trim(item.data.text.s)),
          productTitle |->
            IF ~IsSome(acc.productTitle) /\ IsString(item.data.productTitle)
                 /\ Trim(item.data.productTitle.s) # ""
              THEN Some(Trim(item.data.productTitle.s)) ELSE acc.productTitle]
    ELSE acc

WithItem(acc, item) ==
  [reviews |->
     IF item.obj /\ IsString(item.data.text) /\ Trim(item.data.text.s) # ""
       THEN Append(acc.reviews, Trim(item.data.text.s)) ELSE acc.reviews,
   productTitle |->
     IF item.obj /\ ~IsSome(acc.productTitle)
          /\ IsString(item.data.productTitle) /\ Trim(item.data.productTitle.s) # ""
       THEN Some(Trim(item.data.productTitle.s)) ELSE acc.productTitle]

RECURSIVE ExtractReviews(_, _)
ExtractReviews(items, acc) ==
  IF Len(items) = 0 THEN acc
  ELSE ExtractReviews(Tail(items), WithItem(acc, Head(items)))

\* the message of the error a rejected fetch() or response.json() carries
TransportErrorMessage == "fetch failed"

\* a faulty variant of ReviewsToolSettle: an empty array is invalid data
ReviewsToolSettleRaisingOnEmpty(response, asin) ==
  IF response.kind = "throw" THEN Rejected(TransportErrorMessage)
  ELSE IF response.kind = "status"
    THEN Rejected("Apify API request failed with status " \o response.status
                  \o ": " \o response.statusText \o ".")
  ELSE IF response.body.shape # "array" \/ response.body.items = <<>>
    THEN Rejected("Apify returned invalid data for product ASIN " \o asin \o ".")
  ELSE Fulfilled(ExtractReviews(response.body.items, EmptyCorpus))

\* a faulty variant of ReviewsToolSettle: a non-success status returns the
\* empty corpus
ReviewsToolSettleAbsorbingStatus(response, asin) ==
  IF response.kind = "throw" THEN Rejected(TransportErrorMessage)
  ELSE IF response.kind = "status" THEN Fulfilled(EmptyCorpus)
  ELSE IF response.body.shape # "array"
    THEN Rejected("Apify returned invalid data for product ASIN " \o asin \o ".")
  ELSE Fulfilled(ExtractReviews(response.body.items, EmptyCorpus))

\* the tool of the revision the flow is written against, after the provider
\* has answered: every failure throws
ReviewsToolSettle(response, asin) ==
  IF response.kind = "throw" THEN Rejected(TransportErrorMessage)
  ELSE IF response.kind = "status"
    THEN Rejected("Apify API request failed with status " \o response.status
                  \o ": " \o response.statusText \o ".")
  ELSE IF response.body.shape # "array"
    THEN Rejected("Apify returned invalid data for product ASIN " \o asin \o ".")
  ELSE Fulfilled(ExtractReviews(response.body.items, EmptyCorpus))

ReviewsToolRequest(productURL, ref) ==
  IF ~IsSome(ref.asin) \/ ~IsSome(ref.domainCode)
    THEN [promise |-> Rejected("Could not extract valid ASIN or domain from URL: "
                               \o productURL \o "."),
          request |-> None]
    ELSE [promise |-> Pending, request |-> Some(ActorInput(ref))]

\* the tool call up to its first await
ReviewsToolStart(productURL, token) ==
  IF ~token
    THEN [promise |-> Rejected("APIFY_API_TOKEN environment variable is not set."),
          request |-> None]
  ELSE ReviewsToolRequest(productURL, extractAsinAndDomain(productURL))

\* extractAsinAndDomain of the revision of the review tool that returns empty
\* reviews: the query parameter and the path patterns on the parsed URL, no
\* scan of the raw string, and nothing at all when the URL does not parse
ExtractReviewsWithURL(url) ==
  IF url.ok
    THEN [asin |-> AsinOfURL(url),
          domainCode |-> DomainCodeOfOptional(Some(url.hostname))]
    ELSE [asin |-> None, domainCode |-> None]

extractAsinAndDomainReviews(productURL) ==
  ExtractReviewsWithURL(URLOfTrimmed(Trim(productURL)))

LenientReviewsToolRequest(ref) ==
  IF ~IsSome(ref.asin) \/ ~IsSome(ref.domainCode)
    THEN [promise |-> Fulfilled(EmptyCorpus), request |-> None]
    ELSE [promise |-> Pending, request |-> Some(ActorInput(ref))]

\* that revision of the tool up to its first await
LenientReviewsToolStart(productURL, token) ==
  IF ~token THEN [promise |-> Fulfilled(EmptyCorpus), request |-> None]
  ELSE LenientReviewsToolRequest(extractAsinAndDomainReviews(productURL))

\* the earlier revision of the tool, after the provider has answered: every
\* failure returns the empty corpus
LenientReviewsToolSettle(response) ==
  IF response.kind = "throw" THEN Fulfilled(EmptyCorpus)
  ELSE IF response.kind = "status" THEN Fulfilled(EmptyCorpus)
  ELSE IF response.body.shape # "array" THEN Fulfilled(EmptyCorpus)
  ELSE Fulfilled(ExtractReviews(response.body.items, EmptyCorpus))

(***************************************************************************)
(* composeReviewFlow                                                       *)
(***************************************************************************)
MaxSnippets == 10
MaxSnippetLen == 300

BadLinkMessage ==
  "Unable to extract product information from this URL. Please use a direct Amazon product page link (e.g., https://www.amazon.com/dp/B0XXXXXXXXX). The app currently supports standard product pages, not special Amazon pages like Buy Again, Mobile Missions, or Review pages."
MissingConfigMessage ==
  "API configuration missing. Please ensure the APIFY_API_TOKEN environment variable is set."
GenerationFailedMessage ==
  "Failed to generate review text and title from prompt. Output might be missing expected fields."
SchemaMinRating == 1
SchemaMaxRating == 5

\* starRating: z.number().min(1).max(5).optional()
RatingInRange(starRating) ==
  IsSome(starRating) => Val(starRating) \in SchemaMinRating..SchemaMaxRating

RatingSchemaErrorMessage ==
  "Schema validation failed. Parse Errors: - starRating: must be >= 1"
InputSchemaErrorMessage ==
  "Schema validation failed. Parse Errors: - amazonLink: must match format \"uri\""

\* error.message || "An unknown error occurred during data fetching."
MessageOrUnknown(message) ==
  IF message = "" THEN "An unknown error occurred during data fetching." ELSE message

\* the catch block around the fetches: the message of the error re-thrown
RethrownMessage(errorMessage) ==
  IF Includes(errorMessage, "Could not extract a valid ASIN") THEN BadLinkMessage
  ELSE IF Includes(errorMessage, "APIFY_API_TOKEN") THEN MissingConfigMessage
  ELSE "Could not fetch product details from the provided Amazon link. Reason: "
       \o errorMessage
       \o ". Please ensure the link is a valid, public product page and try again."

FetchFailureMessage(message) == RethrownMessage(MessageOrUnknown(message))

\* fetchedProductInfo.productName || fetchedApifyReviewsData.productTitle
\*   || 'Unknown Product'
FinalName(info, corpus) ==
  IF info.productName # "" THEN info.productName
  ELSE IF IsSome(corpus.productTitle) /\ Val(corpus.productTitle) # ""
    THEN Val(corpus.productTitle)
  ELSE "Unknown Product"

\* a faulty variant of Snippet: the marker is appended from 300 characters on
SnippetMarkedFromLimit(review) ==
  "- " \o Substring0(review, MaxSnippetLen)
       \o (IF Len(review) >= MaxSnippetLen THEN "..." ELSE "")

\* `- ${review.substring(0, 300)}${review.length > 300 ? '...' : ''}`
Snippet(review) ==
  "- " \o Substring0(review, MaxSnippetLen)
       \o (IF Len(review) > MaxSnippetLen THEN "..." ELSE "")

\* reviews.slice(0, 10).map(...).join('\\n'), undefined for an empty corpus
CustomerReviewsText(reviews) ==
  IF Len(reviews) > 0
    THEN Some(Join([i \in 1..Min({Len(reviews), MaxSnippets}) |-> Snippet(reviews[i])],
                   "\\n"))
    ELSE None

PromptInput(input, info, corpus) ==
  [productName |-> FinalName(info, corpus),
   productDescription |-> info.productDescription,
   starRating |-> input.starRating,
   feedbackText |-> input.feedbackText,
   customerReviewsText |-> CustomerReviewsText(corpus.reviews)]

\* a faulty variant of FetchesSettled: the flow waits for the product-info
\* call only
FetchesSettledInfoOnly(info, rev) == info.st # "pending"

\* the await of the tool call (skipReviews) or of Promise.allSettled: the
\* flow goes on when no call it started is pending
FetchesSettled(info, rev) == info.st # "pending" /\ rev.st # "pending"

\* a faulty variant of OutputInvalid: only the presence of the fields is
\* tested, the empty string passes
OutputInvalidPresenceOnly(promptOutput) ==
  \/ ~IsSome(promptOutput)
  \/ ~IsSome(Val(promptOutput).reviewText)
  \/ ~IsSome(Val(promptOutput).reviewTitle)

\* !promptOutput || !promptOutput.reviewText || !promptOutput.reviewTitle
OutputInvalid(promptOutput) ==
  \/ ~IsSome(promptOutput)
  \/ ~IsSome(Val(promptOutput).reviewText) \/ Val(Val(promptOutput).reviewText) = ""
  \/ ~IsSome(Val(promptOutput).reviewTitle) \/ Val(Val(promptOutput).reviewTitle) = ""

(***************************************************************************)
(* The inputs of the model: the links and texts a user types, the answers  *)
(* of the two Apify actors and of the completion service.                  *)
(***************************************************************************)
GoodLink == "https://www.amazon.com/dp/B0TESTITEM"
NoAsinLink == "https://www.amazon.com/hz/reviews"
NoDomainLink == "https://www.example.com/dp/B0TESTITEM"
NotAURL == "amazon.com/dp/B0TESTITEM"

FormLinks == {GoodLink, NoAsinLink, NoDomainLink, NotAURL}
RefineTexts == {"", "  ", "make it shorter"}

\* what the user says about the product: nothing, or a rating with feedback
maxRating == 5

\* the values the star buttons hand to onChange: index + 1 for each button
StarValues == {index + 1 : index \in 0..(maxRating - 1)}

FormOpinions ==
  {[starRating |-> 0, feedbackText |-> ""],
   [starRating |-> CHOOSE v \in StarValues : \A w \in StarValues : v <= w,
    feedbackText |-> ""],
   [starRating |-> CHOOSE v \in StarValues : \A w \in StarValues : v >= w,
    feedbackText |-> "great battery life"]}

Forms ==
  {[amazonLink |-> link, starRating |-> opinion.starRating,
    feedbackText |-> opinion.feedbackText, skipReviews |-> skip] :
     link \in FormLinks, opinion \in FormOpinions, skip \in BOOLEAN}

\* defaultValues of useForm, also the values handleClearForm resets to
DefaultForm ==
  [amazonLink |-> "", starRating |-> 0, feedbackText |-> "", skipReviews |-> FALSE]

ProductData(title, description, imageUrl) ==
  [title |-> title, productDescription |-> description,
   features |-> None, aboutProduct |-> None,
   imageUrl |-> imageUrl, mainImageLink |-> Undef, imagesLink |-> Undef]

ReviewData(text, productTitle) == [text |-> text, productTitle |-> productTitle]

ThrowResponse == [kind |-> "throw"]
StatusResponse ==
  [kind |-> "status", status |-> "503", statusText |-> "Service Unavailable"]
JsonResponse(body) == [kind |-> "json", body |-> body]
NotArrayBody == [shape |-> "notArray", items |-> <<>>]
ArrayBody(items) == [shape |-> "array", items |-> items]
Object(data) == [obj |-> TRUE, data |-> data]
NonObject == [obj |-> FALSE, data |-> ReviewData(Undef, Undef)]

InfoResponses ==
  {ThrowResponse, StatusResponse, JsonResponse(NotArrayBody),
   JsonResponse(ArrayBody(<<>>)), JsonResponse(ArrayBody(<<NonObject>>)),
   JsonResponse(ArrayBody(<<Object(ProductData(Str("Acme Widget"),
        Str("A sturdy widget for every home."), Str("https://img.example.com/w.jpg")))>>)),
   JsonResponse(ArrayBody(<<Object(ProductData(Str("Acme Widget"),
        Undef, Str("no image")))>>)),
   JsonResponse(ArrayBody(<<Object(ProductData(Str("   "), Num(42), Undef))>>)),
   JsonResponse(ArrayBody(<<Object(ProductData(Str("   "), Str("Compact."), Undef))>>))}

\* s repeated n times
RECURSIVE Repeated(_, _)
Repeated(s, n) == IF n = 0 THEN "" ELSE s \o Repeated(s, n - 1)

\* a review of exactly 300 characters, and one of 301
ReviewOfLen300 == Repeated("0123456789", 30)
ReviewOfLen301 == ReviewOfLen300 \o "x"

\* a page of two long reviews and a short one
LongReviewsResponse ==
  JsonResponse(ArrayBody(<<Object(ReviewData(Str(ReviewOfLen300), Undef)),
                           Object(ReviewData(Str(ReviewOfLen301), Undef)),
                           Object(ReviewData(Str("Fine."), Undef))>>))

\* a page of eleven reviews
ElevenReviewsResponse ==
  JsonResponse(ArrayBody(
    [i \in 1..11 |->
       Object(ReviewData(
         Str(<<"r01", "r02", "r03", "r04", "r05", "r06", "r07", "r08", "r09",
               "r10", "r11">>[i]), Undef))]))

ReviewResponses ==
  {ThrowResponse, StatusResponse, JsonResponse(NotArrayBody),
   JsonResponse(ArrayBody(<<>>)),
   JsonResponse(ArrayBody(<<NonObject,
        Object(ReviewData(Str("  "), Str(" Acme Widget Pro "))),
        Object(ReviewData(Str(" Works well. "), Str("Acme Widget Mini"))),
        Object(ReviewData(Num(5), Str("  "))),
        Object(ReviewData(Str("Second."), Undef))>>)),
   JsonResponse(ArrayBody(<<Object(ReviewData(Str("Too noisy."), Num(7)))>>)),
   LongReviewsResponse, ElevenReviewsResponse}

Output(title, text) == Some([reviewTitle |-> title, reviewText |-> text])

Completions ==
  {[kind |-> "throw", message |-> "Model returned no candidates", output |-> None],
   [kind |-> "output", message |-> "", output |-> None],
   [kind |-> "output", message |-> "", output |-> Output(None, Some("I like it."))],
   [kind |-> "output", message |-> "", output |-> Output(Some("Solid"), Some(""))],
   [kind |-> "output", message |-> "", output |-> Output(Some("Solid"), Some("I like it."))]}

MaxCalls == 2
Calls == 1..MaxCalls

(***************************************************************************)
(* State                                                                   *)
(***************************************************************************)
VARIABLES
  apifyToken,              \* process.env.APIFY_API_TOKEN is set
  flow,                    \* the calls of composeReview, by call number
  started,                 \* the number of calls made so far
  form,                    \* the values of reviewForm
  generatedReview, generatedReviewTitle,
  fetchedProductName, fetchedProductImageURL,
  isLoading, error, showRefineBox, refineComments, isRefining,
  isAuthenticated, passwordInput, loginError,
  authData,                \* localStorage item reviewForgeAuth
  authLoaded,              \* the effect that reads the item has run
  now                      \* new Date().getTime(), in days

vars == <<apifyToken, flow, started, form, generatedReview, generatedReviewTitle,
          fetchedProductName, fetchedProductImageURL, isLoading, error,
          showRefineBox, refineComments, isRefining,
          isAuthenticated, passwordInput, loginError, authData, authLoaded, now>>

authVars == <<isAuthenticated, passwordInput, loginError, authData, authLoaded, now>>

HARDCODED_PASSWORD == "amazon"
AUTH_EXPIRY_DAYS == 14

\* JSON.stringify({ token, expiry }); expiry 0 stands for a missing expiry
AuthItem(token, expiry) == [parses |-> TRUE, token |-> token, expiry |-> expiry]
\* an item that JSON.parse rejects
BrokenItem == [parses |-> FALSE, token |-> "", expiry |-> 0]

\* A test of the stored session that does not look at the expiry.
TokenValidIgnoringExpiry(item, time) ==
  item.parses /\ item.token = "loggedIn"

\* authData && authData.token === 'loggedIn' && authData.expiry
\*   && new Date().getTime() < authData.expiry
TokenValid(item, time) ==
  item.parses /\ item.token = "loggedIn" /\ item.expiry # 0 /\ time < item.expiry

\* the page after a login at day 0
LoggedIn ==
  /\ isAuthenticated = TRUE
  /\ passwordInput = ""
  /\ loginError = None
  /\ authData = Some(AuthItem("loggedIn", AUTH_EXPIRY_DAYS))
  /\ authLoaded = TRUE
  /\ now = 0

pageVars == <<form, generatedReview, generatedReviewTitle, fetchedProductName,
              fetchedProductImageURL, isLoading, error, showRefineBox,
              refineComments, isRefining>>

NoInput ==
  [amazonLink |-> "", starRating |-> None, feedbackText |-> None,
   skipReviews |-> FALSE]

\* one call of composeReview: where it stands, what it was given, the two
\* tool promises, the requests posted to the two actors with the answers
\* received, the prompts sent to the completion service with the answers
\* received, and its outcome
IdleFlow ==
  [pc |-> "idle", kind |-> "none", input |-> NoInput,
   info |-> Idle, rev |-> Idle,
   infoReqs |-> <<>>, revReqs |-> <<>>,
   infoResps |-> <<>>, revResps |-> <<>>,
   prompts |-> <<>>, completions |-> <<>>,
   result |-> None, error |-> None]

InitPage ==
  /\ flow = [c \in Calls |-> IdleFlow]
  /\ started = 0
  /\ form = DefaultForm
  /\ generatedReview = None
  /\ generatedReviewTitle = None
  /\ fetchedProductName = None
  /\ fetchedProductImageURL = None
  /\ isLoading = FALSE
  /\ error = None
  /\ showRefineBox = FALSE
  /\ refineComments = ""
  /\ isRefining = FALSE

Init ==
  /\ apifyToken \in BOOLEAN
  /\ InitPage
  /\ LoggedIn

(***************************************************************************)
(* The flow, step by step                                                  *)
(***************************************************************************)
\* the requests a tool call posts before its first await
Posted(start) == IF IsSome(start.request) THEN <<Val(start.request)>> ELSE <<>>

\* fetchAmazonProductInfoTool({ productURL: input.amazonLink }) is called
WithInfoCall(f, start) ==
  [f EXCEPT !.pc = "fetching",
            !.info = start.promise,
            !.infoReqs = f.infoReqs \o Posted(start)]

\* fetchAmazonReviewsApifyTool({ productURL: input.amazonLink }) is called
WithReviewsCall(f, start) ==
  [f EXCEPT !.rev = start.promise,
            !.revReqs = f.revReqs \o Posted(start)]

\* the review tool is called unless input.skipReviews
WithReviewsUnlessSkipped(f, token) ==
  IF f.input.skipReviews THEN f
  ELSE WithReviewsCall(f, ReviewsToolStart(f.input.amazonLink, token))

\* the flow from its call to its first await: the input is checked against
\* ComposeReviewInputSchema, then the tools are started
FlowStarted(f, token) ==
  IF ~IsURL(f.input.amazonLink)
    THEN [f EXCEPT !.pc = "thrown", !.error = Some(InputSchemaErrorMessage)]
  ELSE IF ~RatingInRange(f.input.starRating)
    THEN [f EXCEPT !.pc = "thrown", !.error = Some(RatingSchemaErrorMessage)]
    ELSE WithReviewsUnlessSkipped(
           WithInfoCall(f, InfoToolStart(f.input.amazonLink, token)), token)

\* the corpus the flow goes on with: empty when the reviews were skipped or
\* the review tool rejected
CorpusOf(f) ==
  IF f.input.skipReviews THEN EmptyCorpus
  ELSE IF f.rev.st = "fulfilled" THEN f.rev.val
  ELSE EmptyCorpus

\* the flow from the settled fetches to the await of the prompt
FlowFetched(f) ==
  IF f.info.st = "rejected"
    THEN [f EXCEPT !.pc = "thrown",
                   !.error = Some(FetchFailureMessage(f.info.err))]
    ELSE [f EXCEPT !.pc = "prompting",
                   !.prompts = Append(f.prompts,
                                      PromptInput(f.input, f.info.val, CorpusOf(f)))]

\* the rest of the flow, from the answer of the prompt to its return or throw
FlowOutcome(f, completion) ==
  IF completion.kind = "throw"
    THEN [f EXCEPT !.pc = "thrown", !.error = Some(completion.message)]
  ELSE IF OutputInvalid(completion.output)
    THEN [f EXCEPT !.pc = "thrown", !.error = Some(GenerationFailedMessage)]
  ELSE [f EXCEPT !.pc = "returned",
                 !.result = Some(
                   [reviewTitle |-> Val(Val(completion.output).reviewTitle),
                    reviewText |-> Val(Val(completion.output).reviewText),
                    fetchedProductName |-> f.prompts[Len(f.prompts)].productName,
                    fetchedProductImageURL |-> f.info.val.productImageURL])]

\* the answer of the completion service reaches the flow
FlowPrompted(f, completion) ==
  FlowOutcome([f EXCEPT !.completions = Append(f.completions, completion)],
              completion)

\* a faulty variant of InfoAnswered: a failed request is posted once more
InfoAnsweredRetrying(f, response) ==
  IF IsProviderFailure(response) /\ Len(f.infoReqs) < 2
    THEN [f EXCEPT !.infoReqs = Append(f.infoReqs, f.infoReqs[Len(f.infoReqs)]),
                   !.infoResps = Append(f.infoResps, response)]
    ELSE [f EXCEPT !.info = InfoToolSettle(response),
                   !.infoResps = Append(f.infoResps, response)]

\* the answer of the product-details actor reaches the tool
InfoAnswered(f, response) ==
  [f EXCEPT !.info = InfoToolSettle(response),
            !.infoResps = Append(f.infoResps, response)]

\* the answer of the reviews actor reaches the tool
ReviewsAnswered(f, response) ==
  [f EXCEPT !.rev = ReviewsToolSettle(response, f.revReqs[Len(f.revReqs)].asin),
            !.revResps = Append(f.revResps, response)]

FlowStart(c) ==
  /\ flow[c].pc = "called"
  /\ flow' = [flow EXCEPT ![c] = FlowStarted(flow[c], apifyToken)]
  /\ UNCHANGED <<authVars, apifyToken, started, pageVars>>

InfoRespond(c) ==
  /\ flow[c].pc = "fetching"
  /\ flow[c].info.st = "pending"
  /\ \E response \in InfoResponses :
       flow' = [flow EXCEPT ![c] = InfoAnswered(flow[c], response)]
  /\ UNCHANGED <<authVars, apifyToken, started, pageVars>>

ReviewsRespond(c) ==
  /\ flow[c].pc = "fetching"
  /\ flow[c].rev.st = "pending"
  /\ \E response \in ReviewResponses :
       flow' = [flow EXCEPT ![c] = ReviewsAnswered(flow[c], response)]
  /\ UNCHANGED <<authVars, apifyToken, started, pageVars>>

\* A composer keeping fetchedApifyReviewsData at module scope: every call
\* reads the reviews written by the latest call that fetched some.
ReviewsLastWritten(c) ==
  IF \E d \in Calls : flow[d].rev.st = "fulfilled"
    THEN flow[CHOOSE d \in Calls :
                /\ flow[d].rev.st = "fulfilled"
                /\ \A e \in Calls : flow[e].rev.st = "fulfilled" => e <= d].rev
    ELSE flow[c].rev

FlowAfterFetchSharedReviews(c) ==
  /\ flow[c].pc = "fetching"
  /\ FetchesSettled(flow[c].info, flow[c].rev)
  /\ flow' = [flow EXCEPT ![c] =
                [FlowFetched([flow[c] EXCEPT !.rev = ReviewsLastWritten(c)])
                   EXCEPT !.rev = flow[c].rev]]
  /\ UNCHANGED <<authVars, apifyToken, started, pageVars>>

FlowAfterFetch(c) ==
  /\ flow[c].pc = "fetching"
  /\ FetchesSettled(flow[c].info, flow[c].rev)
  /\ flow' = [flow EXCEPT ![c] = FlowFetched(flow[c])]
  /\ UNCHANGED <<authVars, apifyToken, started, pageVars>>

PromptRespond(c) ==
  /\ flow[c].pc = "prompting"
  /\ \E completion \in Completions :
       flow' = [flow EXCEPT ![c] = FlowPrompted(flow[c], completion)]
  /\ UNCHANGED <<authVars, apifyToken, started, pageVars>>

(***************************************************************************)
(* The page: ReviewForgePage                                               *)
(***************************************************************************)
\* the review card (with the refine controls) is rendered
ReviewShown == IsSome(generatedReview) /\ Val(generatedReview) # "" /\ ~isLoading

\* a faulty variant of RatingOf: the rating 0 of an untouched form is sent
RatingOfKeepingZero(starRating) == Some(starRating)

\* starRating: 0 means no rating
RatingOf(starRating) == IF starRating = 0 THEN None ELSE Some(starRating)

\* aiInput of onReviewSubmit
SubmitInput(data) ==
  [amazonLink |-> data.amazonLink,
   starRating |-> RatingOf(data.starRating),
   feedbackText |-> Some(data.feedbackText),
   skipReviews |-> data.skipReviews]

RefinementSeparator == "\n\nAdditional refinement: "

\* a faulty variant of CombinedFeedback: no separator
CombinedFeedbackGlued(currentFeedback, comments) == currentFeedback \o comments

\* combinedFeedback of handleRefineReview
CombinedFeedback(currentFeedback, comments) ==
  IF currentFeedback # ""
    THEN currentFeedback \o RefinementSeparator \o comments
    ELSE comments

\* aiInput of handleRefineReview
\* A refinement that hands over the rating of the form as it is.
RefineInputRawRating(data, comments) ==
  [amazonLink |-> data.amazonLink,
   starRating |-> Some(data.starRating),
   feedbackText |-> Some(CombinedFeedback(data.feedbackText, comments)),
   skipReviews |-> data.skipReviews]

RefineInput(data, comments) ==
  [amazonLink |-> data.amazonLink,
   starRating |-> RatingOf(data.starRating),
   feedbackText |-> Some(CombinedFeedback(data.feedbackText, comments)),
   skipReviews |-> data.skipReviews]

\* the message onReviewSubmit shows for a failed call
UserFriendlyMessage(errorMessage) ==
  IF Includes(errorMessage, "APIFY_API_TOKEN")
    THEN "API configuration missing. Please ensure the APIFY_API_TOKEN environment variable is set."
  ELSE IF Includes(errorMessage, "Could not fetch product")
    THEN "Unable to fetch Amazon product data. Please check your API configuration and try again."
  ELSE errorMessage

\* composeReview(aiInput) is called
NewCall(kind, input) ==
  [IdleFlow EXCEPT !.pc = "called", !.kind = kind, !.input = input]

\* the call has been awaited to its end
Settled == [IdleFlow EXCEPT !.pc = "settled"]

\* the user edits the form fields (disabled while isLoading)
FillForm ==
  /\ isAuthenticated
  /\ ~isLoading
  /\ \E data \in Forms : form' = data
  /\ UNCHANGED <<authVars, apifyToken, flow, started, generatedReview, generatedReviewTitle,
                 fetchedProductName, fetchedProductImageURL, isLoading, error,
                 showRefineBox, refineComments, isRefining>>

\* onReviewSubmit up to the await of composeReview; handleSubmit runs it only
\* for values that pass reviewFormSchema
OnReviewSubmit ==
  /\ isAuthenticated
  /\ ~isLoading
  /\ IsURL(form.amazonLink)
  /\ started < MaxCalls
  /\ isLoading' = TRUE
  /\ error' = None
  /\ generatedReview' = None
  /\ generatedReviewTitle' = None
  /\ fetchedProductName' = None
  /\ fetchedProductImageURL' = None
  /\ started' = started + 1
  /\ flow' = [flow EXCEPT ![started + 1] = NewCall("submit", SubmitInput(form))]
  /\ UNCHANGED <<authVars, apifyToken, form, showRefineBox, refineComments, isRefining>>

\* handleClearForm (disabled while isLoading)
HandleClearForm ==
  /\ isAuthenticated
  /\ ~isLoading
  /\ form' = DefaultForm
  /\ generatedReview' = None
  /\ generatedReviewTitle' = None
  /\ fetchedProductName' = None
  /\ fetchedProductImageURL' = None
  /\ error' = None
  /\ showRefineBox' = FALSE
  /\ refineComments' = ""
  /\ UNCHANGED <<authVars, apifyToken, flow, started, isLoading, isRefining>>

\* the Refine Review button: setShowRefineBox(!showRefineBox)
ToggleRefineBox ==
  /\ isAuthenticated
  /\ ReviewShown
  /\ ~isRefining
  /\ showRefineBox' = ~showRefineBox
  /\ UNCHANGED <<authVars, apifyToken, flow, started, form, generatedReview,
                 generatedReviewTitle, fetchedProductName, fetchedProductImageURL,
                 isLoading, error, refineComments, isRefining>>

\* the refine textarea: setRefineComments(e.target.value)
SetRefineComments ==
  /\ isAuthenticated
  /\ ReviewShown
  /\ showRefineBox
  /\ ~isRefining
  /\ \E text \in RefineTexts : refineComments' = text
  /\ UNCHANGED <<authVars, apifyToken, flow, started, form, generatedReview,
                 generatedReviewTitle, fetchedProductName, fetchedProductImageURL,
                 isLoading, error, showRefineBox, isRefining>>

\* the Cancel button of the refine box
CancelRefine ==
  /\ isAuthenticated
  /\ ReviewShown
  /\ showRefineBox
  /\ ~isRefining
  /\ showRefineBox' = FALSE
  /\ refineComments' = ""
  /\ UNCHANGED <<authVars, apifyToken, flow, started, form, generatedReview,
                 generatedReviewTitle, fetchedProductName, fetchedProductImageURL,
                 isLoading, error, isRefining>>

\* handleRefineReview up to the await of composeReview; the Apply button is
\* disabled for blank comments
HandleRefineReview ==
  /\ isAuthenticated
  /\ ReviewShown
  /\ showRefineBox
  /\ ~isRefining
  /\ Trim(refineComments) # ""
  /\ started < MaxCalls
  /\ isRefining' = TRUE
  /\ error' = None
  /\ started' = started + 1
  /\ flow' = [flow EXCEPT ![started + 1] =
                NewCall("refine", RefineInput(form, refineComments))]
  /\ UNCHANGED <<authVars, apifyToken, form, generatedReview, generatedReviewTitle,
                 fetchedProductName, fetchedProductImageURL, isLoading,
                 showRefineBox, refineComments>>

\* the try branch of onReviewSubmit after the await
SubmitReturned(result) ==
  /\ generatedReview' = Some(result.reviewText)
  /\ generatedReviewTitle' = Some(result.reviewTitle)
  /\ fetchedProductName' =
       IF result.fetchedProductName # ""
         THEN Some(result.fetchedProductName) ELSE fetchedProductName
  /\ fetchedProductImageURL' =
       IF IsSome(result.fetchedProductImageURL)
            /\ Val(result.fetchedProductImageURL) # ""
         THEN result.fetchedProductImageURL ELSE fetchedProductImageURL
  /\ UNCHANGED error

\* the catch branch of onReviewSubmit
SubmitThrown(errorMessage) ==
  /\ error' = Some("Failed to compose review: " \o UserFriendlyMessage(errorMessage))
  /\ UNCHANGED <<generatedReview, generatedReviewTitle,
                 fetchedProductName, fetchedProductImageURL>>

\* the rest of onReviewSubmit once composeReview has settled
\* A submit handler without the finally block: isLoading is reset after a
\* result only.
SubmitSettledWithoutFinally(c) ==
  /\ flow[c].kind = "submit"
  /\ flow[c].pc \in {"returned", "thrown"}
  /\ IF flow[c].pc = "returned"
       THEN SubmitReturned(Val(flow[c].result))
       ELSE SubmitThrown(Val(flow[c].error))
  /\ isLoading' = (flow[c].pc # "returned")
  /\ flow' = [flow EXCEPT ![c] = Settled]
  /\ UNCHANGED <<authVars, apifyToken, started, form, showRefineBox, refineComments, isRefining>>

SubmitSettled(c) ==
  /\ flow[c].kind = "submit"
  /\ flow[c].pc \in {"returned", "thrown"}
  /\ IF flow[c].pc = "returned"
       THEN SubmitReturned(Val(flow[c].result))
       ELSE SubmitThrown(Val(flow[c].error))
  /\ isLoading' = FALSE
  /\ flow' = [flow EXCEPT ![c] = Settled]
  /\ UNCHANGED <<authVars, apifyToken, started, form, showRefineBox, refineComments, isRefining>>

\* the try branch of handleRefineReview after the await
RefineReturned(result) ==
  /\ generatedReview' = Some(result.reviewText)
  /\ generatedReviewTitle' = Some(result.reviewTitle)
  /\ showRefineBox' = FALSE
  /\ refineComments' = ""
  /\ UNCHANGED error

\* the catch branch of handleRefineReview
\* A catch block that also removes the review that was to be refined.
RefineThrownClearingReview(errorMessage) ==
  /\ error' = Some("Failed to refine review: " \o errorMessage)
  /\ generatedReview' = None
  /\ generatedReviewTitle' = None
  /\ UNCHANGED <<showRefineBox, refineComments>>

RefineThrown(errorMessage) ==
  /\ error' = Some("Failed to refine review: " \o errorMessage)
  /\ UNCHANGED <<generatedReview, generatedReviewTitle, showRefineBox, refineComments>>

\* the rest of handleRefineReview once composeReview has settled
RefineSettled(c) ==
  /\ flow[c].kind = "refine"
  /\ flow[c].pc \in {"returned", "thrown"}
  /\ IF flow[c].pc = "returned"
       THEN RefineReturned(Val(flow[c].result))
       ELSE RefineThrown(Val(flow[c].error))
  /\ isRefining' = FALSE
  /\ flow' = [flow EXCEPT ![c] = Settled]
  /\ UNCHANGED <<authVars, apifyToken, started, form, fetchedProductName,
                 fetchedProductImageURL, isLoading>>

Next ==
  \/ FillForm
  \/ OnReviewSubmit
  \/ HandleClearForm
  \/ ToggleRefineBox
  \/ SetRefineComments
  \/ CancelRefine
  \/ HandleRefineReview
  \/ \E c \in Calls : FlowStart(c)
  \/ \E c \in Calls : InfoRespond(c)
  \/ \E c \in Calls : ReviewsRespond(c)
  \/ \E c \in Calls : FlowAfterFetch(c)
  \/ \E c \in Calls : PromptRespond(c)
  \/ \E c \in Calls : SubmitSettled(c)
  \/ \E c \in Calls : RefineSettled(c)

Spec == Init /\ [][Next]_vars

(***************************************************************************)
(* Authentication: the login page, the stored session and Logout           *)
(***************************************************************************)
PasswordInputs == {"", "amazon", "Amazon"}

\* what localStorage holds when the page is opened
StoredItems ==
  {None,
   Some(AuthItem("loggedIn", AUTH_EXPIRY_DAYS)),
   Some(AuthItem("loggedIn", 0)),
   Some(AuthItem("guest", AUTH_EXPIRY_DAYS)),
   Some(BrokenItem)}

TickDays == 7
MaxNow == 21

\* the page as constructed, before its effects have run
InitAuth ==
  /\ apifyToken = FALSE
  /\ InitPage
  /\ isAuthenticated = FALSE
  /\ passwordInput = ""
  /\ loginError = None
  /\ authData \in StoredItems
  /\ authLoaded = FALSE
  /\ now = 0

\* the effect that reads the stored session
LoadStoredAuth ==
  /\ ~authLoaded
  /\ authLoaded' = TRUE
  /\ IF IsSome(authData) /\ TokenValid(Val(authData), now)
       THEN isAuthenticated' = TRUE /\ UNCHANGED authData
       ELSE authData' = None /\ UNCHANGED isAuthenticated
  /\ UNCHANGED <<apifyToken, flow, started, pageVars, passwordInput, loginError, now>>

SetPasswordInput ==
  /\ authLoaded
  /\ ~isAuthenticated
  /\ \E text \in PasswordInputs : passwordInput' = text
  /\ UNCHANGED <<apifyToken, flow, started, pageVars, isAuthenticated, loginError,
                 authData, authLoaded, now>>

\* saved: localStorage.setItem returns; otherwise it throws
HandleLogin ==
  /\ authLoaded
  /\ ~isAuthenticated
  /\ \E saved \in BOOLEAN :
       IF passwordInput # HARDCODED_PASSWORD
         THEN /\ loginError' = Some("Incorrect password.")
              /\ UNCHANGED <<isAuthenticated, passwordInput, authData>>
       ELSE IF saved
         THEN /\ authData' = Some(AuthItem("loggedIn", now + AUTH_EXPIRY_DAYS))
              /\ isAuthenticated' = TRUE
              /\ loginError' = None
              /\ passwordInput' = ""
         ELSE /\ loginError' = Some("Could not save login session. Please try again.")
              /\ UNCHANGED <<isAuthenticated, passwordInput, authData>>
  /\ UNCHANGED <<apifyToken, flow, started, pageVars, authLoaded, now>>

HandleLogout ==
  /\ isAuthenticated
  /\ authData' = None
  /\ isAuthenticated' = FALSE
  /\ generatedReview' = None
  /\ generatedReviewTitle' = None
  /\ fetchedProductName' = None
  /\ fetchedProductImageURL' = None
  /\ error' = None
  /\ form' = DefaultForm
  /\ UNCHANGED <<apifyToken, flow, started, isLoading, showRefineBox, refineComments,
                 isRefining, passwordInput, loginError, authLoaded, now>>

\* the page is opened again: the state of the component is new, the stored
\* session stays, results of calls in flight have no page to arrive at
Reload ==
  /\ authLoaded
  /\ flow' = [c \in Calls |-> IdleFlow]
  /\ form' = DefaultForm
  /\ generatedReview' = None
  /\ generatedReviewTitle' = None
  /\ fetchedProductName' = None
  /\ fetchedProductImageURL' = None
  /\ isLoading' = FALSE
  /\ error' = None
  /\ showRefineBox' = FALSE
  /\ refineComments' = ""
  /\ isRefining' = FALSE
  /\ isAuthenticated' = FALSE
  /\ passwordInput' = ""
  /\ loginError' = None
  /\ authLoaded' = FALSE
  /\ UNCHANGED <<apifyToken, started, authData, now>>

Tick ==
  /\ now + TickDays <= MaxNow
  /\ now' = now + TickDays
  /\ UNCHANGED <<apifyToken, flow, started, pageVars, isAuthenticated, passwordInput,
                 loginError, authData, authLoaded>>

NextAuth ==
  \/ LoadStoredAuth
  \/ SetPasswordInput
  \/ HandleLogin
  \/ HandleLogout
  \/ Reload
  \/ Tick
  \/ FillForm
  \/ OnReviewSubmit
  \/ \E c \in Calls : FlowStart(c)
  \/ \E c \in Calls : FlowAfterFetch(c)
  \/ \E c \in Calls : PromptRespond(c)
  \/ \E c \in Calls : SubmitSettled(c)

SpecAuth == InitAuth /\ [][NextAuth]_vars

(***************************************************************************)
(* The resolver on a family of links.  A link is put together from a host, *)
(* a path and a query; each part is written down with what it carries: the *)
(* marketplace code of the host, the identifier of the path, the valid     *)
(* value of the query parameter asin, and an identifier that only a scan   *)
(* of the raw text finds.  The form starts filled with one link of the     *)
(* family; the page submits it and the flow starts the two tools on it.    *)
(***************************************************************************)
LinkHosts ==
  {[text |-> "www.amazon.com", code |-> Some("com")],
   [text |-> "amazon.co.uk", code |-> Some("co.uk")],
   [text |-> "www.Amazon.de", code |-> Some("de")],
   [text |-> "www.amazon.nl", code |-> Some("nl")],
   [text |-> "www.example.com", code |-> None]}

LinkPaths ==
  {[text |-> "/dp/B0PATH0001", id |-> Some("B0PATH0001")],
   [text |-> "/Acme-Widget/dp/b0path0002/ref=sr_1_1", id |-> Some("B0PATH0002")],
   [text |-> "/gp/product/B0PATH0003", id |-> Some("B0PATH0003")],
   [text |-> "/gp/aw/d/B0PATH0004", id |-> Some("B0PATH0004")],
   [text |-> "/hz/reviews", id |-> None],
   [text |-> "/dp/SHORT", id |-> None]}

LinkQueries ==
  {[text |-> "", asin |-> None, raw |-> None],
   [text |-> "?asin=B0QUERY001", asin |-> Some("B0QUERY001"), raw |-> None],
   [text |-> "?ref=x&asin=b0query002", asin |-> Some("B0QUERY002"), raw |-> None],
   [text |-> "?asin=short", asin |-> None, raw |-> None],
   [text |-> "?ASIN=B0QUERY003", asin |-> None, raw |-> Some("B0QUERY003")],
   [text |-> "?asin=B0QUERY004&asin=B0QUERY005", asin |-> Some("B0QUERY004"),
    raw |-> None],
   [text |-> "?th=1&psc=1", asin |-> None, raw |-> None]}

LinkOf(host, path, query) == "https://" \o host.text \o path.text \o query.text

ResolverLinks ==
  {LinkOf(host, path, query) :
     host \in LinkHosts, path \in LinkPaths, query \in LinkQueries}

\* the same identifier written in several letter cases
ShapeIds ==
  {[text |-> "B0SHAPE001", id |-> "B0SHAPE001"],
   [text |-> "b0shape001", id |-> "B0SHAPE001"],
   [text |-> "B0Shape001", id |-> "B0SHAPE001"],
   [text |-> "1234567890", id |-> "1234567890"],
   [text |-> "abcdefghij", id |-> "ABCDEFGHIJ"]}

\* the supported shapes of a product link: what precedes the identifier
LinkShapes ==
  {"/dp/", "/gp/product/", "/gp/aw/d/", "/d/", "/Acme-Widget-Pro/dp/",
   "/hz/reviews?asin="}

ShapeLink(host, shape, x) == "https://" \o host.text \o shape \o x.text

ShapeLinks ==
  {ShapeLink(host, shape, x) : host \in LinkHosts, shape \in LinkShapes, x \in ShapeIds}

\* links with path segments around the identifier, each with the identifier
\* the link carries (None: the link carries none)
SegmentLinks ==
  {[text |-> "https://www.amazon.com/Acme-Widget/dp/B0PATH0002/ref=sr_1_1",
    id |-> Some("B0PATH0002")],
   [text |-> "https://www.amazon.com/dp/B0PATH0002/d/Headphones",
    id |-> Some("B0PATH0002")],
   [text |-> "https://www.amazon.com/-/Headphones/dp/B0PATH0002",
    id |-> Some("B0PATH0002")],
   [text |-> "https://www.amazon.com/stores/d/Headphones/page",
    id |-> None],
   [text |-> "https://www.amazon.com/dp/B0TESTITEM1234",
    id |-> None]}

\* hostnames, each with the marketplace code of the storefront it belongs to
\* (None: the hostname is not one of the marketplace)
MarketHosts ==
  {[text |-> "www.amazon.com.br", code |-> Some("com.br")],
   [text |-> "smile.amazon.co.uk", code |-> Some("co.uk")],
   [text |-> "amazon.co.jp", code |-> Some("co.jp")],
   [text |-> "WWW.AMAZON.COM.AU", code |-> Some("com.au")],
   [text |-> "www.amazon.se", code |-> Some("se")],
   [text |-> "www.amazon.com.tr", code |-> Some("com.tr")],
   [text |-> "www.amazon.uk", code |-> Some("co.uk")],
   [text |-> "amazon.jp", code |-> Some("co.jp")],
   [text |-> "www.amazon.com.evil.org", code |-> None],
   [text |-> "www.notamazon.com", code |-> None],
   [text |-> "amazon.evil.com", code |-> None]}

HostLink(host) == "https://" \o host.text \o "/dp/B0PATH0001"

HostLinks == {HostLink(host) : host \in MarketHosts}

\* the links the form is submitted with
SubmittedLinks ==
  ResolverLinks \cup ShapeLinks \cup {l.text : l \in SegmentLinks} \cup HostLinks

InitResolve ==
  /\ apifyToken \in BOOLEAN
  /\ flow = [c \in Calls |-> IdleFlow]
  /\ started = 0
  /\ \E link \in SubmittedLinks, skip \in BOOLEAN :
       form = [DefaultForm EXCEPT !.amazonLink = link, !.skipReviews = skip]
  /\ generatedReview = None
  /\ generatedReviewTitle = None
  /\ fetchedProductName = None
  /\ fetchedProductImageURL = None
  /\ isLoading = FALSE
  /\ error = None
  /\ showRefineBox = FALSE
  /\ refineComments = ""
  /\ isRefining = FALSE
  /\ LoggedIn

NextResolve ==
  \/ OnReviewSubmit
  \/ \E c \in Calls : FlowStart(c)

SpecResolve == InitResolve /\ [][NextResolve]_vars

(***************************************************************************)
(* Two calls in flight.  The page shows the review of an earlier call that *)
(* has returned, with the refine box open and a comment typed.  Apply      *)
(* starts a refinement, which sets isRefining and leaves isLoading alone,  *)
(* so the submit button stays enabled and a submit can be started while    *)
(* the refinement is in flight.                                            *)
(***************************************************************************)
ShownForms ==
  {[amazonLink |-> GoodLink, starRating |-> 5,
    feedbackText |-> "great battery life", skipReviews |-> skip] :
     skip \in BOOLEAN}

InitShown ==
  /\ apifyToken = TRUE
  /\ flow = [c \in Calls |-> IdleFlow]
  /\ started = 0
  /\ form \in ShownForms
  /\ generatedReview = Some("I like it.")
  /\ generatedReviewTitle = Some("Solid")
  /\ fetchedProductName = Some("Acme Widget")
  /\ fetchedProductImageURL = Some("https://img.example.com/w.jpg")
  /\ isLoading = FALSE
  /\ error = None
  /\ showRefineBox = TRUE
  /\ refineComments = "make it shorter"
  /\ isRefining = FALSE
  /\ LoggedIn

NextConcurrent ==
  \/ OnReviewSubmit
  \/ HandleRefineReview
  \/ \E c \in Calls : FlowStart(c)
  \/ \E c \in Calls : InfoRespond(c)
  \/ \E c \in Calls : ReviewsRespond(c)
  \/ \E c \in Calls : FlowAfterFetch(c)
  \/ \E c \in Calls : PromptRespond(c)
  \/ \E c \in Calls : SubmitSettled(c)
  \/ \E c \in Calls : RefineSettled(c)

SpecConcurrent == InitShown /\ [][NextConcurrent]_vars

(***************************************************************************)
(* Properties of composeReview, read off the calls in flight               *)
(***************************************************************************)
LastOf(seq) == seq[Len(seq)]

\* the call has gone past its fetches
PastFetches(f) == f.pc \in {"prompting", "returned", "thrown"} /\ f.info.st # "idle"

\* the provider's answer is a provider-level failure: a transport or parsing
\* exception, a non-success status, or a body that is not a non-empty array
\* of objects
ProviderFailed(response) ==
  \/ response.kind = "throw"
  \/ response.kind = "status"
  \/ response.body.shape # "array"
  \/ response.body.items = <<>>
  \/ \E i \in 1..Len(response.body.items) : ~response.body.items[i].obj

\* product info could not be resolved for the call: no secret, no reference
\* to ask the provider about, a failing provider, or a rejected tool call
InfoUnresolved(f) ==
  \/ ~apifyToken
  \/ f.infoReqs = <<>>
  \/ f.infoResps # <<>> /\ ProviderFailed(LastOf(f.infoResps))
  \/ f.info.st = "rejected"

\* the completion lacks a title or a body
Incomplete(completion) ==
  /\ completion.kind = "output"
  /\ \/ completion.output = None
     \/ Val(completion.output).reviewTitle \in {None, Some("")}
     \/ Val(completion.output).reviewText \in {None, Some("")}

\* C1: compose is all-or-nothing.  A call that returns carries a non-empty
\* title and a non-empty body and no error; a call that throws carries no
\* result; and a completion that is absent, or whose title or body is missing
\* or empty, makes the call throw the generation error.
C1_AllOrNothing ==
  \A c \in Calls :
    /\ flow[c].pc = "returned" =>
         /\ IsSome(flow[c].result)
         /\ Val(flow[c].result).reviewTitle # ""
         /\ Val(flow[c].result).reviewText # ""
         /\ ~IsSome(flow[c].error)
    /\ flow[c].pc = "thrown" => ~IsSome(flow[c].result) /\ IsSome(flow[c].error)
    /\ (flow[c].completions # <<>> /\ Incomplete(LastOf(flow[c].completions))) =>
         /\ flow[c].pc = "thrown"
         /\ flow[c].error = Some(GenerationFailedMessage)

\* a completion with a title and an empty body has made a call throw
C1_Witness ==
  \E c \in Calls :
    /\ flow[c].pc = "thrown"
    /\ flow[c].completions # <<>>
    /\ LastOf(flow[c].completions).output = Output(Some("Solid"), Some(""))
    /\ flow[c].prompts # <<>>

\* C2: compose fails whenever product info cannot be resolved (no secret, an
\* unresolvable link, a failing provider), with and without skipReviews, and
\* the completion service is never called with the placeholder product name.
C2_UnresolvedInfoIsFatal ==
  \A c \in Calls :
    /\ (PastFetches(flow[c]) /\ InfoUnresolved(flow[c])) =>
         flow[c].pc = "thrown" /\ flow[c].prompts = <<>>
    /\ \A i \in 1..Len(flow[c].prompts) :
         flow[c].prompts[i].productName # DEFAULT_PRODUCT_NAME

\* C3: without skipReviews a failed product-info fetch makes compose fail
\* whatever the review fetch did, and a failed review fetch is absorbed: the
\* prompt carries no customer reviews and no alternate title, and the error
\* of the review fetch is never the error of the call.
C3_AsymmetricFetchOutcomes ==
  \A c \in Calls :
    (PastFetches(flow[c]) /\ ~flow[c].input.skipReviews) =>
      /\ InfoUnresolved(flow[c]) => flow[c].pc = "thrown" /\ flow[c].prompts = <<>>
      /\ (~InfoUnresolved(flow[c]) /\ flow[c].rev.st = "rejected") =>
           /\ flow[c].prompts # <<>>
           /\ LastOf(flow[c].prompts).customerReviewsText = None
           /\ LastOf(flow[c].prompts).productName = flow[c].info.val.productName
           /\ flow[c].pc = "thrown" => flow[c].completions # <<>>

\* C4: the completion service is called only after both fetches have settled
\* and never when the product-info call rejected: a call that has sent a
\* prompt has a fulfilled product-info call and, unless the reviews were
\* skipped, a settled review call; while a fetch is pending no prompt is sent.
C4_PromptAfterBothSettled ==
  \A c \in Calls :
    /\ flow[c].prompts # <<>> =>
         /\ flow[c].info.st = "fulfilled"
         /\ flow[c].input.skipReviews \/ flow[c].rev.st \in {"fulfilled", "rejected"}
    /\ (flow[c].info.st = "pending" \/ flow[c].rev.st = "pending") =>
         flow[c].prompts = <<>> /\ flow[c].pc = "fetching"
    /\ flow[c].info.st = "rejected" =>
         flow[c].prompts = <<>> /\ flow[c].pc \in {"fetching", "thrown"}

\* both providers have answered, the review call rejected, and the prompt
\* has been sent
C4_Witness ==
  \E c \in Calls :
    /\ flow[c].prompts # <<>>
    /\ ~flow[c].input.skipReviews
    /\ flow[c].infoResps # <<>>
    /\ flow[c].revResps # <<>>
    /\ flow[c].rev.st = "rejected"

\* the known generic placeholders for a product name
GenericNames == {"Product (Details Fetching Failed)", "Unknown Product", "This Product"}

\* the alternate title of the review corpus the call goes on with
AlternateTitle(f) ==
  IF ~f.input.skipReviews /\ f.rev.st = "fulfilled" THEN f.rev.val.productTitle
  ELSE None

\* C5: the product name of the prompt and of the result is the product-info
\* name when present and not a generic placeholder, else the alternate title
\* of the review corpus; it is never empty and never a generic placeholder
\* (compose fails instead); when both names exist the product-info name wins.
C5_FinalProductName ==
  \A c \in Calls :
    flow[c].prompts # <<>> =>
      /\ LastOf(flow[c].prompts).productName \notin (GenericNames \cup {""})
      /\ LastOf(flow[c].prompts).productName =
           IF flow[c].info.val.productName \notin (GenericNames \cup {""})
             THEN flow[c].info.val.productName
             ELSE Val(AlternateTitle(flow[c]))
      /\ flow[c].pc = "returned" =>
           Val(flow[c].result).fetchedProductName = LastOf(flow[c].prompts).productName

\* a refinement is called in this step
RefinementCalled(c) == flow[c].pc = "idle" /\ flow'[c].kind = "refine"

\* C6 (amended): a refinement is a new call of compose whose feedback is the
\* form's feedback, the separator and the commentary (the commentary alone
\* when the form has no feedback), and it runs the whole flow again: with the
\* secret set and a resolvable link it posts one request to the product-info
\* provider and, unless the reviews are skipped, one to the review provider.
C6_RefinementRunsWholeFlow ==
  /\ [][\A c \in Calls :
          RefinementCalled(c) =>
            flow'[c].input.feedbackText =
              Some(IF form.feedbackText = "" THEN refineComments
                   ELSE form.feedbackText \o "\n\nAdditional refinement: "
                          \o refineComments)]_vars
  /\ [](\A c \in Calls :
          (/\ flow[c].kind = "refine"
           /\ flow[c].pc \in {"fetching", "prompting", "returned"}
           /\ apifyToken
           /\ flow[c].input.amazonLink = GoodLink) =>
            /\ Len(flow[c].infoReqs) = 1
            /\ Len(flow[c].revReqs) = IF flow[c].input.skipReviews THEN 0 ELSE 1)

\* a refinement with the combined feedback has posted its product-info request
C6_Witness ==
  \E c \in Calls :
    /\ flow[c].kind = "refine"
    /\ flow[c].pc = "fetching"
    /\ flow[c].input.feedbackText =
         Some("great battery life\n\nAdditional refinement: make it shorter")
    /\ Len(flow[c].infoReqs) = 1
    /\ Len(flow[c].revReqs) = 1

\* C6 (as stated): between the start and the end of a refinement no request
\* is issued to the product-info provider or to the review provider.
C6_RefinementWithoutRefetch ==
  \A c \in Calls :
    flow[c].kind = "refine" => flow[c].infoReqs = <<>> /\ flow[c].revReqs = <<>>

\* the review provider's answer is one the strict review tool raises for
StrictRaisesFor(response) ==
  \/ response.kind = "throw"
  \/ response.kind = "status"
  \/ response.body.shape # "array"

\* C7 (amended): for every provider-level failure the product-info tool
\* returns the fixed sentinel and does not raise.  The strict review tool
\* raises for a transport or parsing exception, a non-success status and a
\* body that is no array, and returns a corpus for every array, the empty
\* one included; the lenient review tool returns the empty corpus where the
\* strict one raises and the same corpus everywhere else.
C7_LenientSentinelStrictRaises ==
  \A c \in Calls :
    /\ (flow[c].infoResps # <<>> /\ ProviderFailed(LastOf(flow[c].infoResps))) =>
         flow[c].info =
           [st |-> "fulfilled",
            val |-> [productName |-> "Product (Details Fetching Failed)",
                     productDescription |-> DEFAULT_DESCRIPTION,
                     productImageURL |-> None]]
    /\ flow[c].revResps # <<>> =>
         /\ flow[c].rev.st = "rejected" <=> StrictRaisesFor(LastOf(flow[c].revResps))
         /\ LenientReviewsToolSettle(LastOf(flow[c].revResps)) =
              IF flow[c].rev.st = "rejected"
                THEN [st |-> "fulfilled", val |-> [reviews |-> <<>>, productTitle |-> None]]
                ELSE flow[c].rev

\* both providers answered with a non-success status: the product-info call
\* is fulfilled with the sentinel, the review call is rejected
C7_Witness ==
  \E c \in Calls :
    /\ flow[c].infoResps = <<StatusResponse>>
    /\ flow[c].revResps = <<StatusResponse>>
    /\ flow[c].info = Fulfilled(DefaultInfo)
    /\ flow[c].rev.st = "rejected"

\* C7 (as stated): for every provider-level failure, a body that is not a
\* non-empty array of objects included, the lenient product-info tool returns
\* the sentinel and the strict tool raises.
C7_EveryFailureRaisesInStrictMode ==
  \A c \in Calls :
    /\ (flow[c].infoResps # <<>> /\ ProviderFailed(LastOf(flow[c].infoResps))) =>
         flow[c].info.st = "fulfilled"
    /\ (flow[c].revResps # <<>> /\ ProviderFailed(LastOf(flow[c].revResps))) =>
         flow[c].rev.st = "rejected"

\* C8: without APIFY_API_TOKEN each tool fails with a configuration error
\* before any request and never substitutes a default result, and compose
\* fails with the message that names the secret to set.
C8_MissingSecretIsConfigurationError ==
  ~apifyToken =>
    \A c \in Calls :
      /\ flow[c].infoReqs = <<>>
      /\ flow[c].revReqs = <<>>
      /\ flow[c].info.st \in {"idle", "rejected"}
      /\ flow[c].rev.st \in {"idle", "rejected"}
      /\ flow[c].prompts = <<>>
      /\ PastFetches(flow[c]) =>
           flow[c].pc = "thrown" /\ flow[c].error = Some(MissingConfigMessage)

(***************************************************************************)
(* Properties of the resolver, read off the calls started on the links     *)
(***************************************************************************)
\* the identifier a link carries: the valid query parameter, else the
\* identifier of the path, else what only the scan of the raw text finds
ExpectedId(path, query) ==
  IF IsSome(query.asin) THEN query.asin
  ELSE IF IsSome(path.id) THEN path.id
  ELSE query.raw

\* C9: for a link from which no valid identifier or no marketplace code can
\* be extracted the resolver reports the missing element as missing and
\* invents none, no request is posted to either provider, no tool call
\* waits for an answer, and the review tool rejects.
C9_UnresolvableLinkPostsNothing ==
  \A c \in Calls : \A host \in LinkHosts, path \in LinkPaths, query \in LinkQueries :
    (/\ flow[c].pc = "fetching"
     /\ flow[c].input.amazonLink = LinkOf(host, path, query)
     /\ ~IsSome(ExpectedId(path, query)) \/ ~IsSome(host.code)) =>
      /\ extractAsinAndDomain(flow[c].input.amazonLink) =
           [asin |-> ExpectedId(path, query), domainCode |-> host.code]
      /\ flow[c].infoReqs = <<>>
      /\ flow[c].revReqs = <<>>
      /\ flow[c].info.st # "pending"
      /\ flow[c].rev.st = IF flow[c].input.skipReviews THEN "idle" ELSE "rejected"

\* with the secret set, a call on a link without an identifier has started
\* its tools and posted nothing
C9_Witness ==
  \E c \in Calls :
    /\ apifyToken
    /\ flow[c].pc = "fetching"
    /\ flow[c].input.amazonLink = "https://www.amazon.com/hz/reviews?asin=short"
    /\ flow[c].infoReqs = <<>>
    /\ flow[c].rev.st = "rejected"

\* C10: for a link with a valid identifier in the query parameter asin and
\* an identifier in its path the resolver returns the identifier of the
\* query parameter, upper-cased; the identifier of the path is returned when
\* the query parameter is absent or not valid.  With the secret set and a
\* marketplace code, that identifier is the one posted to the providers.
C10_QueryParameterWins ==
  \A c \in Calls : \A host \in LinkHosts, path \in LinkPaths, query \in LinkQueries :
    (/\ flow[c].pc = "fetching"
     /\ flow[c].input.amazonLink = LinkOf(host, path, query)
     /\ IsSome(path.id)) =>
      /\ extractAsinAndDomain(flow[c].input.amazonLink).asin =
           IF IsSome(query.asin) THEN query.asin ELSE path.id
      /\ (apifyToken /\ IsSome(host.code)) =>
           /\ flow[c].infoReqs =
                <<[asin |-> IF IsSome(query.asin) THEN Val(query.asin) ELSE Val(path.id),
                   domainCode |-> Val(host.code)]>>
           /\ flow[c].input.skipReviews \/ flow[c].revReqs = flow[c].infoReqs

\* a call on a link with both identifiers has posted the one of the query
C10_Witness ==
  \E c \in Calls :
    /\ flow[c].pc = "fetching"
    /\ flow[c].input.amazonLink
         = "https://www.amazon.com/Acme-Widget/dp/b0path0002/ref=sr_1_1?ref=x&asin=b0query002"
    /\ flow[c].infoReqs = <<[asin |-> "B0QUERY002", domainCode |-> "com"]>>
    /\ flow[c].revReqs = <<[asin |-> "B0QUERY002", domainCode |-> "com"]>>

\* C11: shape invariance.  For one host and one identifier X, written in any
\* letter case, the links /dp/X, /gp/product/X, /gp/aw/d/X, /d/X, a slug
\* before /dp/X and an identifier-free path with ?asin=X all resolve to the
\* pair of the upper-cased X and the marketplace code of the host, and that
\* pair is what is posted to the providers.
C11_ShapeInvariance ==
  \A c \in Calls : \A host \in LinkHosts, shape \in LinkShapes, x \in ShapeIds :
    (/\ flow[c].pc = "fetching"
     /\ flow[c].input.amazonLink = ShapeLink(host, shape, x)) =>
      /\ extractAsinAndDomain(flow[c].input.amazonLink) =
           [asin |-> Some(x.id), domainCode |-> host.code]
      /\ (apifyToken /\ IsSome(host.code)) =>
           /\ flow[c].infoReqs = <<[asin |-> x.id, domainCode |-> Val(host.code)]>>
           /\ flow[c].input.skipReviews \/ flow[c].revReqs = flow[c].infoReqs

\* a call on the gp/product shape with a lower-case identifier has posted
\* the upper-cased identifier
C11_Witness ==
  \E c \in Calls :
    /\ flow[c].pc = "fetching"
    /\ flow[c].input.amazonLink = "https://amazon.co.uk/gp/product/b0shape001"
    /\ flow[c].infoReqs = <<[asin |-> "B0SHAPE001", domainCode |-> "co.uk"]>>

\* C12: when the review provider answers with an empty array the review
\* tool returns the corpus without snippets and without alternate title and
\* does not raise, in the throwing revision and in the revision that returns
\* empty reviews; the flow goes on, its prompt carries no customerReviewsText,
\* and a throw of the call then comes from the product-info call or from
\* the completion.
C12_EmptyResultSetIsNoError ==
  \A c \in Calls :
    (flow[c].revResps # <<>>
       /\ LastOf(flow[c].revResps) = JsonResponse(ArrayBody(<<>>))) =>
      /\ flow[c].rev = [st |-> "fulfilled",
                        val |-> [reviews |-> <<>>, productTitle |-> None]]
      /\ LenientReviewsToolSettle(LastOf(flow[c].revResps)) = flow[c].rev
      /\ flow[c].prompts # <<>> =>
           LastOf(flow[c].prompts).customerReviewsText = None
      /\ flow[c].pc = "thrown" =>
           flow[c].info.st = "rejected" \/ flow[c].completions # <<>>
      /\ (flow[c].pc \in {"prompting", "returned", "thrown"}
            /\ flow[c].info.st = "fulfilled") => flow[c].prompts # <<>>

\* a call whose review provider answered with an empty array has returned
C12_Witness ==
  \E c \in Calls :
    /\ flow[c].revResps = <<JsonResponse(ArrayBody(<<>>))>>
    /\ flow[c].pc = "returned"
    /\ LastOf(flow[c].prompts).customerReviewsText = None

\* the link of the call yields no identifier or no marketplace code
Unresolvable(f) ==
  \/ ~IsSome(extractAsinAndDomain(f.input.amazonLink).asin)
  \/ ~IsSome(extractAsinAndDomain(f.input.amazonLink).domainCode)

\* C13: every failure of compose carries the message of its cause: an
\* unresolvable link the bad-link message, an absent secret the
\* missing-config message, a failure of the product-info provider the
\* product-fetch-failed message, an invalid completion the generation-failed
\* message.
C13_CauseSpecificMessages ==
  \A c \in Calls :
    PastFetches(flow[c]) =>
      /\ (apifyToken /\ Unresolvable(flow[c])) =>
           flow[c].pc = "thrown" /\ flow[c].error = Some(BadLinkMessage)
      /\ ~apifyToken =>
           flow[c].pc = "thrown" /\ flow[c].error = Some(MissingConfigMessage)
      /\ (flow[c].infoResps # <<>> /\ ProviderFailed(LastOf(flow[c].infoResps))) =>
           /\ flow[c].pc = "thrown"
           /\ IsSome(flow[c].error)
           /\ MatchesAt(Val(flow[c].error), 1, "Could not fetch product details")
      /\ (flow[c].completions # <<>> /\ Incomplete(LastOf(flow[c].completions))) =>
           flow[c].pc = "thrown" /\ flow[c].error = Some(GenerationFailedMessage)

\* C14: with skipReviews a call posts no request to the review provider at
\* any point and never starts the review tool, its prompt carries no
\* customerReviewsText and no alternate title, and unresolved product info
\* still makes the call throw before any prompt.
C14_SkipReviewsFetchesInfoOnly ==
  \A c \in Calls :
    flow[c].input.skipReviews =>
      /\ flow[c].revReqs = <<>>
      /\ flow[c].revResps = <<>>
      /\ flow[c].rev.st = "idle"
      /\ \A i \in 1..Len(flow[c].prompts) :
           /\ flow[c].prompts[i].customerReviewsText = None
           /\ flow[c].prompts[i].productName
                \in {flow[c].info.val.productName, "Unknown Product"}
      /\ (PastFetches(flow[c]) /\ InfoUnresolved(flow[c])) =>
           flow[c].pc = "thrown" /\ flow[c].prompts = <<>>

\* C15: within one call each collaborator is asked at most once: at most
\* one product-info request, one review request and one prompt, each with at
\* most one answer.  No answer is followed by a second attempt: once a
\* provider has answered its tool call is settled, a failing review answer
\* leaves the review call rejected, and once the completion service has
\* answered the call has returned or thrown.
C15_AtMostOnceNoRetry ==
  \A c \in Calls :
    /\ Len(flow[c].infoReqs) <= 1
    /\ Len(flow[c].revReqs) <= 1
    /\ Len(flow[c].prompts) <= 1
    /\ Len(flow[c].infoResps) <= Len(flow[c].infoReqs)
    /\ Len(flow[c].revResps) <= Len(flow[c].revReqs)
    /\ Len(flow[c].completions) <= Len(flow[c].prompts)
    /\ flow[c].infoResps # <<>> => flow[c].info.st \in {"fulfilled", "rejected"}
    /\ flow[c].revResps # <<>> =>
         flow[c].rev.st =
           IF StrictRaisesFor(LastOf(flow[c].revResps)) THEN "rejected" ELSE "fulfilled"
    /\ flow[c].completions # <<>> =>
         /\ flow[c].pc \in {"returned", "thrown"}
         /\ LastOf(flow[c].completions).kind = "throw" => flow[c].pc = "thrown"

\* a call whose three collaborators all failed, each asked once
C15_Witness ==
  \E c \in Calls :
    /\ flow[c].infoReqs # <<>>
    /\ flow[c].infoResps = <<StatusResponse>>
    /\ flow[c].revResps = <<ThrowResponse>>
    /\ Len(flow[c].completions) = 1
    /\ LastOf(flow[c].completions).kind = "throw"
    /\ flow[c].pc = "thrown"

\* the completion is an output with a title and a body
ValidCompletion(completion) ==
  completion.kind = "output" /\ ~Incomplete(completion)

\* C16: a form submitted without rating and without feedback gives a call
\* without rating and without feedback text, and their absence is no cause
\* of failure: once the product-info call is fulfilled the prompt is sent,
\* it carries no rating and no feedback text, a valid completion makes the
\* call return, and the call throws only when the product-info call
\* rejected or the completion failed.
C16_NoRatingNoFeedbackStillSucceeds ==
  \A c \in Calls :
    (/\ flow[c].kind = "submit"
     /\ flow[c].pc \in {"fetching", "prompting", "returned", "thrown"}
     /\ form.starRating = 0
     /\ form.feedbackText = "") =>
      /\ flow[c].input.starRating = None
      /\ flow[c].input.feedbackText \in {None, Some("")}
      /\ (flow[c].pc # "fetching" /\ flow[c].info.st = "fulfilled") =>
           /\ flow[c].prompts # <<>>
           /\ LastOf(flow[c].prompts).starRating = None
           /\ LastOf(flow[c].prompts).feedbackText \in {None, Some("")}
      /\ (flow[c].completions # <<>> /\ ValidCompletion(LastOf(flow[c].completions))) =>
           flow[c].pc = "returned"
      /\ flow[c].pc = "thrown" =>
           \/ flow[c].info.st = "rejected"
           \/ flow[c].completions # <<>> /\ ~ValidCompletion(LastOf(flow[c].completions))

\* a call without rating and feedback on a resolved product has returned
C16_Witness ==
  \E c \in Calls :
    /\ flow[c].kind = "submit"
    /\ flow[c].pc = "returned"
    /\ flow[c].input.starRating = None
    /\ flow[c].input.feedbackText = Some("")
    /\ flow[c].info.val.productName = "Acme Widget"
    /\ LastOf(flow[c].prompts).starRating = None

\* C17: customerReviewsText is absent exactly when the corpus the flow goes
\* on with has no snippet; otherwise it is made of the first 10 snippets in
\* their order, each as a bullet, cut to 300 characters and followed by
\* "..." only when it was cut: a snippet of 300 characters is kept whole, one
\* of 301 is cut and marked, and of eleven snippets the eleventh is left out.
C17_CustomerReviewsText ==
  \A c \in Calls :
    flow[c].prompts # <<>> =>
      /\ LastOf(flow[c].prompts).customerReviewsText = None <=>
           \/ flow[c].input.skipReviews
           \/ flow[c].rev.st # "fulfilled"
           \/ flow[c].rev.val.reviews = <<>>
      /\ (flow[c].revResps # <<>> /\ LastOf(flow[c].revResps) = LongReviewsResponse) =>
           LastOf(flow[c].prompts).customerReviewsText =
             Some("- " \o ReviewOfLen300 \o "\\n- " \o ReviewOfLen300 \o "...\\n- Fine.")
      /\ (flow[c].revResps # <<>> /\ LastOf(flow[c].revResps) = ElevenReviewsResponse) =>
           LastOf(flow[c].prompts).customerReviewsText =
             Some("- r01\\n- r02\\n- r03\\n- r04\\n- r05\\n- r06\\n- r07\\n- r08\\n- r09\\n- r10")
      /\ (flow[c].revResps # <<>> /\ LastOf(flow[c].revResps) \in
            {JsonResponse(ArrayBody(<<Object(ReviewData(Str("Too noisy."), Num(7)))>>))}) =>
           LastOf(flow[c].prompts).customerReviewsText = Some("- Too noisy.")

\* a prompt built from the page of long reviews
C17_Witness ==
  \E c \in Calls :
    /\ flow[c].prompts # <<>>
    /\ flow[c].revResps = <<LongReviewsResponse>>
    /\ Len(flow[c].rev.val.reviews[2]) = 301
    /\ IsSome(LastOf(flow[c].prompts).customerReviewsText)

(***************************************************************************)
(* C18.  Concurrent compositions are independent.  While two calls are in  *)
(* flight together, what each call holds is a function of its own input    *)
(* and of the answers to its own requests: its fetch results are the tools *)
(* applied to its own provider answers, its prompt input is built from its *)
(* own input and own fetch results, its result or failure from its own     *)
(* prompt and own completion.  A step of one call leaves the record of the *)
(* other call as it was.                                                   *)
(***************************************************************************)
OwnCorpus(f) ==
  IF ~f.input.skipReviews /\ f.rev.st = "fulfilled" THEN f.rev.val
  ELSE EmptyCorpus

OwnFetches(f) ==
  /\ f.infoResps # <<>> => f.info = InfoToolSettle(LastOf(f.infoResps))
  /\ f.revResps # <<>> =>
        f.rev = ReviewsToolSettle(LastOf(f.revResps), LastOf(f.revReqs).asin)

OwnPrompt(f) ==
  f.prompts # <<>> =>
    f.prompts = <<PromptInput(f.input, f.info.val, OwnCorpus(f))>>

OwnOutcome(f) ==
  /\ f.pc = "returned" =>
        /\ f.completions # <<>>
        /\ f.result = Some(
              [reviewTitle |-> Val(Val(LastOf(f.completions).output).reviewTitle),
               reviewText |-> Val(Val(LastOf(f.completions).output).reviewText),
               fetchedProductName |-> FinalName(f.info.val, OwnCorpus(f)),
               fetchedProductImageURL |-> f.info.val.productImageURL])
  /\ (f.pc = "thrown" /\ f.completions # <<>>) =>
        f.error = IF LastOf(f.completions).kind = "throw"
                    THEN Some(LastOf(f.completions).message)
                    ELSE Some(GenerationFailedMessage)
  /\ (f.pc = "thrown" /\ f.completions = <<>> /\ f.info.st = "rejected") =>
        f.error = Some(FetchFailureMessage(f.info.err))

InFlight(f) == f.pc \in {"called", "fetching", "prompting", "returned", "thrown"}

Overlapping == \A c \in Calls : InFlight(flow[c])

C18_ConcurrentCallsIndependent ==
  /\ [](Overlapping =>
          \A c \in Calls :
            OwnFetches(flow[c]) /\ OwnPrompt(flow[c]) /\ OwnOutcome(flow[c]))
  /\ [][\A c, d \in Calls :
          (c # d /\ flow'[c] # flow[c]) => flow'[d] = flow[d]]_vars

\* Both calls in flight, with different inputs and different review answers:
\* the refinement has returned a review built from its own answers while the
\* submit started after it holds a prompt built from other ones.
C18_Witness ==
  /\ flow[1].kind = "refine" /\ flow[1].pc = "returned"
  /\ flow[2].kind = "submit" /\ flow[2].pc = "prompting"
  /\ flow[1].input # flow[2].input
  /\ flow[1].rev.st = "rejected" /\ flow[2].rev.st = "fulfilled"
  /\ flow[2].rev.val.reviews # <<>>
  /\ flow[1].prompts[1].customerReviewsText = None
  /\ IsSome(flow[2].prompts[1].customerReviewsText)

(***************************************************************************)
(* C19.  A path segment other than the identifier is never returned as the *)
(* identifier: for a link with a slug or a tracking segment before or      *)
(* after the identifier, with a 10-letter slug after a /d/ or /-/ marker,  *)
(* or with a token of more than 10 characters after /dp/, resolution gives *)
(* the identifier the link carries, none if it carries none, and that is   *)
(* what the call posts to the provider.                                     *)
(***************************************************************************)
C19_SegmentsAreNotIdentifiers ==
  \A c \in Calls : \A l \in SegmentLinks :
    (flow[c].pc = "fetching" /\ flow[c].input.amazonLink = l.text) =>
      /\ extractAsinAndDomain(l.text).asin = l.id
      /\ \A i \in 1..Len(flow[c].infoReqs) :
            l.id = Some(flow[c].infoReqs[i].asin)

(***************************************************************************)
(* C20.  Every identifier resolution returns, and every identifier a call  *)
(* posts, is 10 characters of A-Z and 0-9.  A candidate that fails the     *)
(* format test at one step is dropped and the next step is tried: with a   *)
(* query parameter that is no identifier the path identifier is returned,  *)
(* without a path identifier the one found by the raw-string scan, and     *)
(* none if no step finds one; the call does not fail on it.                *)
(***************************************************************************)
C20_ReturnedIdentifierIsValid ==
  \A c \in Calls :
    flow[c].pc \notin {"idle", "called"} =>
      /\ flow[c].pc = "fetching"
      /\ IsSome(extractAsinAndDomain(flow[c].input.amazonLink).asin) =>
           /\ Len(Val(extractAsinAndDomain(flow[c].input.amazonLink).asin)) = AsinLen
           /\ ValidAsin(Val(extractAsinAndDomain(flow[c].input.amazonLink).asin))
      /\ \A i \in 1..Len(flow[c].infoReqs) : ValidAsin(flow[c].infoReqs[i].asin)
      /\ \A i \in 1..Len(flow[c].revReqs) : ValidAsin(flow[c].revReqs[i].asin)
      /\ \A host \in LinkHosts, path \in LinkPaths, query \in LinkQueries :
           (/\ flow[c].input.amazonLink = LinkOf(host, path, query)
            /\ query.asin = None) =>
             extractAsinAndDomain(flow[c].input.amazonLink).asin =
               IF IsSome(path.id) THEN path.id ELSE query.raw

\* a call whose link has a query parameter that is no identifier has posted
\* the identifier of the path
C20_Witness ==
  \E c \in Calls :
    /\ flow[c].pc = "fetching"
    /\ flow[c].input.amazonLink = "https://www.amazon.com/dp/B0PATH0001?asin=short"
    /\ flow[c].infoReqs = <<[asin |-> "B0PATH0001", domainCode |-> "com"]>>

(***************************************************************************)
(* C21.  Marketplace-code extraction.  A hostname of the marketplace with  *)
(* an allow-listed suffix resolves to that suffix, multi-part suffixes     *)
(* whole; one with another suffix resolves through the split; the bare     *)
(* codes uk and jp become co.uk and co.jp; a hostname that does not belong *)
(* to the marketplace yields no code, and the call then posts nothing.     *)
(***************************************************************************)
C21_MarketplaceCodeOfHostname ==
  \A c \in Calls : \A host \in MarketHosts :
    (flow[c].pc = "fetching" /\ flow[c].input.amazonLink = HostLink(host)) =>
      /\ extractAsinAndDomain(HostLink(host)).domainCode = host.code
      /\ \A i \in 1..Len(flow[c].infoReqs) :
            host.code = Some(flow[c].infoReqs[i].domainCode)

(***************************************************************************)
(* C22.  Within one composition the product-info request and the review    *)
(* request carry the same identifier and marketplace code: the resolver of *)
(* the product-info tool and the resolver of the review tool, in each of   *)
(* its revisions, give the same result for the link of the call, also when *)
(* only the scan of the raw string finds the identifier, and the review    *)
(* tool posts a request exactly when the product-info tool has posted one, *)
(* with the same reference.                                                *)
(***************************************************************************)
C22_OneReferencePerComposition ==
  \A c \in Calls :
    (flow[c].pc = "fetching" /\ ~flow[c].input.skipReviews) =>
      /\ flow[c].revReqs = flow[c].infoReqs
      /\ extractAsinAndDomainReviews(flow[c].input.amazonLink) =
           extractAsinAndDomain(flow[c].input.amazonLink)
      /\ LenientReviewsToolStart(flow[c].input.amazonLink, apifyToken).request =
           IF flow[c].infoReqs = <<>> THEN None ELSE Some(flow[c].infoReqs[1])

(***************************************************************************)
(* C23.  The image URL of the product info the tool returns, and of the    *)
(* composed review, is absent or a well-formed URL: when the provider's    *)
(* record carries an image candidate that does not parse as a URL, the     *)
(* tool call still returns, its info has no image, and the result of the   *)
(* call has none.                                                          *)
(***************************************************************************)
ImageCandidate(response) == ProductImageURL(response.body.items[1].data)

C23_ImageAbsentOrWellFormed ==
  \A c \in Calls :
    (flow[c].infoResps # <<>> /\ ~IsProviderFailure(LastOf(flow[c].infoResps))) =>
      /\ flow[c].info.st = "fulfilled"
      /\ flow[c].info.val.productImageURL \in
           {None, ImageCandidate(LastOf(flow[c].infoResps))}
      /\ IsSome(flow[c].info.val.productImageURL) =>
           IsURL(Val(flow[c].info.val.productImageURL))
      /\ flow[c].pc = "returned" =>
           Val(flow[c].result).fetchedProductImageURL = flow[c].info.val.productImageURL

(***************************************************************************)
(* C24.  Every product info the tool returns has a name of 1 to 200        *)
(* characters and a description of 1 to 1500 characters, whatever the      *)
(* provider's record holds as title and description: a blank string, a     *)
(* value that is no string, or nothing.                                    *)
(***************************************************************************)
C24_NameAndDescriptionBounded ==
  \A c \in Calls :
    flow[c].info.st = "fulfilled" =>
      /\ Len(flow[c].info.val.productName) \in 1..MaxNameLen
      /\ Len(flow[c].info.val.productDescription) \in 1..MaxDescriptionLen

(***************************************************************************)
(* C25.  For an array of provider records the review tool returns the      *)
(* trimmed text of exactly the records whose text is a non-blank string,   *)
(* in the provider's order, and as alternate title the trimmed             *)
(* productTitle of the first record whose productTitle is a non-blank      *)
(* string, whether or not that record's text is blank; records that are no *)
(* objects are skipped and the call does not raise.  Both revisions of the *)
(* tool do so.                                                             *)
(***************************************************************************)
HasText(item) ==
  item.obj /\ IsString(item.data.text) /\ Trim(item.data.text.s) # ""

HasTitle(item) ==
  item.obj /\ IsString(item.data.productTitle) /\ Trim(item.data.productTitle.s) # ""

TextsOf(items) ==
  [i \in 1..Len(SelectSeq(items, HasText)) |->
     Trim(SelectSeq(items, HasText)[i].data.text.s)]

FirstTitleOf(items) ==
  IF SelectSeq(items, HasTitle) = <<>> THEN None
  ELSE Some(Trim(Head(SelectSeq(items, HasTitle)).data.productTitle.s))

C25_TextsAndFirstTitle ==
  \A c \in Calls :
    (/\ flow[c].revResps # <<>>
     /\ LastOf(flow[c].revResps).kind = "json"
     /\ LastOf(flow[c].revResps).body.shape = "array") =>
      /\ flow[c].rev =
           Fulfilled([reviews |-> TextsOf(LastOf(flow[c].revResps).body.items),
                      productTitle |-> FirstTitleOf(LastOf(flow[c].revResps).body.items)])
      /\ LenientReviewsToolSettle(LastOf(flow[c].revResps)) = flow[c].rev

\* the answer with a record that is no object, a record with a title and a
\* blank text, a later record with another title and a text that is no string
C25_Witness ==
  \E c \in Calls :
    /\ Len(flow[c].revResps) = 1
    /\ flow[c].revResps[1].kind = "json"
    /\ Len(flow[c].revResps[1].body.items) = 5
    /\ flow[c].rev = Fulfilled([reviews |-> <<"Works well.", "Second.">>,
                                productTitle |-> Some("Acme Widget Pro")])

(***************************************************************************)
(* C26.  The rating the page hands to compose is absent or an integer in   *)
(* 1..5: the form holds 0 or a value of the star buttons, 0 is handed over *)
(* as absent by a submit and by a refinement, and no call is rejected by   *)
(* the range check of the input schema.                                    *)
(***************************************************************************)
C26_RatingAbsentOrInRange ==
  /\ [](/\ form.starRating \in {0} \cup 1..maxRating
        /\ \A c \in Calls :
             flow[c].pc \notin {"idle", "settled"} =>
               /\ flow[c].input.starRating = None
                    \/ Val(flow[c].input.starRating) \in 1..5
               /\ flow[c].error # Some(RatingSchemaErrorMessage))
  /\ [][\A c \in Calls :
          (flow[c].pc = "idle" /\ flow'[c].pc = "called") =>
            flow'[c].input.starRating =
              IF form.starRating = 0 THEN None ELSE Some(form.starRating)]_vars

\* a refinement of a form without rating is past the input schema and its
\* input has no rating
C26_Witness ==
  \E c \in Calls :
    /\ flow[c].kind = "refine"
    /\ flow[c].pc = "fetching"
    /\ form.starRating = 0
    /\ flow[c].input.starRating = None

(***************************************************************************)
(* C27.  The title and body on the page stem from the latest action of the *)
(* user: the result of a refinement is put on the page only while the      *)
(* review it refines is still there, so not after a Clear, which has       *)
(* removed it, and not after a later submit, which has removed it and is   *)
(* loading; after a Clear the page holds no review until a compose is      *)
(* started.                                                                *)
(***************************************************************************)
C27_LateResultNeverOverwrites ==
  [][\A c \in Calls :
       (/\ flow[c].kind = "refine"
        /\ flow[c].pc = "returned"
        /\ flow'[c].pc = "settled") =>
         (generatedReview # None /\ ~isLoading)]_vars

(***************************************************************************)
(* C28.  isLoading is true exactly while a compose started by a submit is  *)
(* in flight, and at most one such compose is in flight.  The step that    *)
(* starts a submit sets isLoading and clears title, body, product name,    *)
(* image and error; the step in which the compose settles, with a result   *)
(* or with a failure, resets isLoading.                                    *)
(***************************************************************************)
SubmitsInFlight == {c \in Calls : flow[c].kind = "submit" /\ InFlight(flow[c])}

C28_LoadingWhileSubmitInFlight ==
  /\ [](/\ isLoading <=> SubmitsInFlight # {}
        /\ Cardinality(SubmitsInFlight) <= 1)
  /\ [][\A c \in Calls :
          /\ (flow[c].pc = "idle" /\ flow'[c].kind = "submit") =>
                /\ ~isLoading /\ isLoading'
                /\ generatedReview' = None /\ generatedReviewTitle' = None
                /\ fetchedProductName' = None /\ fetchedProductImageURL' = None
                /\ error' = None
          /\ (flow[c].kind = "submit" /\ flow'[c].pc = "settled") =>
                /\ flow[c].pc \in {"returned", "thrown"}
                /\ isLoading /\ ~isLoading']_vars

\* the second submit is in flight after a failed first one: the error of the
\* first is gone and isLoading is set again
C28_Witness ==
  /\ flow[1].pc = "settled"
  /\ flow[2].kind = "submit" /\ flow[2].pc = "thrown"
  /\ isLoading
  /\ error = None /\ generatedReview = None

(***************************************************************************)
(* C29.  The step in which a refinement fails leaves title, body, product  *)
(* name, image and the form as they are: it sets the error message and     *)
(* resets isRefining, nothing else.  A refinement is started only with a   *)
(* commentary that is not blank: with a blank one no call is started and   *)
(* no state changes.                                                       *)
(***************************************************************************)
C29_FailedRefinementKeepsReview ==
  [][\A c \in Calls :
       /\ (flow[c].kind = "refine" /\ flow[c].pc = "thrown"
              /\ flow'[c].pc = "settled") =>
             /\ UNCHANGED <<generatedReview, generatedReviewTitle,
                            fetchedProductName, fetchedProductImageURL, form,
                            showRefineBox, refineComments, isLoading, started>>
             /\ error' = Some("Failed to refine review: " \o Val(flow[c].error))
             /\ isRefining /\ ~isRefining'
       /\ (flow[c].pc = "idle" /\ flow'[c].kind = "refine") =>
             Trim(refineComments) # ""]_vars

\* after a refinement that failed in the generation: the review is still on
\* the page, the box is open with the commentary, the error is set
C29_Witness ==
  /\ error = Some("Failed to refine review: " \o GenerationFailedMessage)
  /\ generatedReview = Some("I like it.")
  /\ generatedReviewTitle = Some("Solid")
  /\ showRefineBox /\ refineComments = "make it shorter"
  /\ ~isRefining

(***************************************************************************)
(* C30.  The form and compose are used only while authenticated.  The page *)
(* becomes authenticated only by a login with the correct password or by   *)
(* the load of a stored session whose token is loggedIn and whose expiry   *)
(* lies in the future; the load of a stored session that is expired or     *)
(* malformed does not authenticate and removes it.  Logout removes the     *)
(* stored session and clears title, body, product name, image, error and   *)
(* the form.                                                               *)
(***************************************************************************)
StoredSessionGood ==
  /\ IsSome(authData)
  /\ Val(authData).parses
  /\ Val(authData).token = "loggedIn"
  /\ Val(authData).expiry > now

C30_OnlyAuthenticatedUse ==
  /\ [](isAuthenticated => (authLoaded /\ IsSome(authData)))
  /\ [][/\ (\E c \in Calls : flow[c].pc = "idle" /\ flow'[c].pc = "called") =>
              (isAuthenticated /\ isAuthenticated')
        /\ form' \notin {form, DefaultForm} => isAuthenticated
        /\ (~isAuthenticated /\ isAuthenticated') =>
              \/ authLoaded /\ passwordInput = HARDCODED_PASSWORD
                   /\ authData' = Some(AuthItem("loggedIn", now + AUTH_EXPIRY_DAYS))
              \/ ~authLoaded /\ StoredSessionGood /\ UNCHANGED authData
        /\ (~authLoaded /\ authLoaded' /\ ~StoredSessionGood) =>
              (~isAuthenticated' /\ authData' = None)
        /\ (isAuthenticated /\ ~isAuthenticated' /\ authLoaded') =>
              /\ authData' = None
              /\ generatedReview' = None /\ generatedReviewTitle' = None
              /\ fetchedProductName' = None /\ fetchedProductImageURL' = None
              /\ error' = None
              /\ form' = DefaultForm]_vars

\* after a call the page has been opened again, a week after the session
\* was stored, and is authenticated under that session
C30_Witness ==
  /\ isAuthenticated
  /\ started = 1 /\ flow[1].pc = "idle"
  /\ now = 7
  /\ authData = Some(AuthItem("loggedIn", AUTH_EXPIRY_DAYS))

====
